---- MODULE Spec2Model ----
(***************************************************************************)
(* A model of the alain-bot repository: the AI client gateway (retry       *)
(* policy, provider adapter, factory), the structured response parsers     *)
(* and the onboarding / pondering conversation flow of the Telegram bot.   *)
(*                                                                         *)
(* The components do not call each other's state, so each one has its own  *)
(* specification (SpecRetry, ...) over its own group of variables; the     *)
(* variables of the other components stay at their initial values.         *)
(***************************************************************************)
EXTENDS Integers, Sequences, FiniteSets, TLC

VARIABLES
    \* ---- retry wrapper, src/ai_client/retry.py
    rpc,             \* position of the wrapper: idle, calling, sleeping, returned, raised
    variant,         \* "sync" (exponential_backoff) or "async" (async_exponential_backoff)
    max_retries,     \* decorator parameter
    base_delay,      \* decorator parameter
    max_delay,       \* decorator parameter
    jitter,          \* decorator parameter
    attempt,         \* loop variable of `for attempt in range(max_retries + 1)`
    last_exception,  \* local variable of the wrapper
    calls,           \* outcomes of the calls of func made by this invocation, in order
    delays,          \* arguments of the sleep calls made by this invocation, in order
    result,          \* what the invocation returned or raised
    invs,            \* one decorated function called by several callers: the
                     \* decorator's parameters and each caller's invocation
    \* ---- response parsers, src/prompts/
    parser_input,    \* the text handed to a parser (its argument llm_output)
    parsed,          \* what the parser returned for it
    \* ---- provider adapter, src/ai_client/anthropic.py
    gen_call,        \* the call made: path (generate / generate_sync), arguments, backend outcome
    gen_params,      \* the params handed to messages.create
    gen_result,      \* what the call returned or raised
    \* ---- factory, src/ai_client/factory.py and config.py
    factory_config,  \* AIClientFactory.config
    provider_cache,  \* AIClientFactory._provider_cache: kind -> instance, 0 when absent
    instances,       \* the adapters constructed so far; an instance is its index here
    env_api_key,     \* os.getenv("ANTHROPIC_API_KEY"), "" when unset
    fac_call,        \* the last factory call: its arguments and what it returned or raised
    default_returned, \* kind -> the instance the last create_provider() without
                     \* overrides returned since the last clear_cache, 0 when none
    fac_threads,     \* thread -> its create_provider() call on the shared factory:
                     \* the line it is at, its local `instance`, what it returned
    \* ---- bot handlers and services, src/bot/handlers/, src/services/, src/db/
    db,              \* the tables, for the one Telegram user and chat of the model
    turn             \* the last update handled: what the handler read, did and sent

wrapperVars == <<rpc, variant, max_retries, base_delay, max_delay, jitter, attempt,
                 last_exception, calls, delays, result>>

retryVars == <<wrapperVars, invs>>

parseVars == <<parser_input, parsed>>

adapterVars == <<gen_call, gen_params, gen_result>>

factoryVars == <<factory_config, provider_cache, instances, env_api_key, fac_call,
                 default_returned, fac_threads>>

botVars == <<db, turn>>

vars == <<retryVars, parseVars, adapterVars, factoryVars, botVars>>

(***************************************************************************)
(* Values shared by the components.                                        *)
(***************************************************************************)
Min(a, b) == IF a <= b THEN a ELSE b

RECURSIVE Pow2(_)
Pow2(n) == IF n = 0 THEN 1 ELSE 2 * Pow2(n - 1)

(***************************************************************************)
(* RETRY POLICY  (src/ai_client/retry.py)                                  *)
(***************************************************************************)

\* Largest max_retries an invocation is given.
MaxRetries == 3

\* Resolution of random.uniform(0, delay * 0.1): the draw is one of
\* 0, 1/JitterSteps, ..., 1 times delay * 0.1.
JitterSteps == 1

\* Delays are counted in units of 1 / DelayUnit seconds, so that a tenth of a
\* delay, and each jitter step of it, is a whole number.
DelayUnit == 10 * JitterSteps

\* The (base_delay, max_delay) pairs an invocation is given: the defaults, whose
\* cap is not reached within MaxRetries delays, and a pair whose cap is reached
\* at the third delay (2, 4, 5, 5, ...).
DelayParams == {<<1, 60>>, <<2, 5>>}

\* What func can return.
Values == {"resp_a", "resp_b"}

\* The exception classes func can raise.  ConnectionError and TimeoutError are
\* the Python builtins; ValueError stands for the caller-misuse errors.
RetryableKinds == {"AIRateLimitError", "ConnectionError", "TimeoutError"}
FatalKinds == {"AIAuthenticationError", "AIModelNotFoundError",
               "AIQuotaExceededError", "AIProviderError", "ValueError"}
ErrorKinds == RetryableKinds \cup FatalKinds

\* An outcome of a call: a returned value, or a raised exception object.  The
\* exception object raised by the call of attempt n is identified by n.
Ret(v) == [ok |-> TRUE, val |-> v, kind |-> "none", id |-> 0]
Exc(k, n) == [ok |-> FALSE, val |-> "none", kind |-> k, id |-> n]
NoOutcome == [ok |-> FALSE, val |-> "none", kind |-> "none", id |-> 0]
\* The value of a Python function that falls off its end.
ReturnsNone == [ok |-> TRUE, val |-> "None", kind |-> "none", id |-> 0]

\* A variant of IsRetryable that catches the base class of the provider errors.
IsRetryable_CatchesProviderError(kind) ==
    kind \in RetryableKinds \cup {"AIProviderError", "AIAuthenticationError"}

\* A variant of IsRetryable for a retrying clause `except BaseException`.
IsRetryable_CatchesBaseException(kind) == TRUE

\* except (AIRateLimitError, ConnectionError, TimeoutError)
IsRetryable(kind) == kind \in RetryableKinds

\* A variant of RetriesExhausted that gives up one attempt early.
RetriesExhausted_OffByOne(a, r) == a + 1 >= r

\* A variant of RetriesExhausted that never gives up inside the loop.
RetriesExhausted_Never(a, r) == a > r

\* if attempt == max_retries: raise
RetriesExhausted(a, r) == a = r

\* A variant of BackoffDelay without the cap.
BackoffDelay_NoCap(b, a, m) == b * Pow2(a)

\* delay = min(base_delay * (2 ** attempt), max_delay), in seconds
BackoffDelay(b, a, m) == Min(b * Pow2(a), m)

\* delay += random.uniform(0, delay * 0.1), the draw being step u of JitterSteps;
\* the result is in units of 1 / DelayUnit seconds.
JitteredDelay(d, j, u) == d * DelayUnit + (IF j THEN d * u ELSE 0)

\* The draws random.uniform can make (none when jitter is off).
JitterDraws(j) == IF j THEN 0 .. JitterSteps ELSE {0}

RetryInit ==
    /\ rpc = "idle"
    /\ variant = "sync"
    /\ max_retries = 0
    /\ base_delay = 1
    /\ max_delay = 1
    /\ jitter = FALSE
    /\ attempt = 0
    /\ last_exception = NoOutcome
    /\ calls = <<>>
    /\ delays = <<>>
    /\ result = NoOutcome

\* A call of the decorated function: the wrapper starts its loop.
wrapper_enter(v, r, b, m, j) ==
    /\ rpc = "idle"
    /\ variant' = v
    /\ max_retries' = r
    /\ base_delay' = b
    /\ max_delay' = m
    /\ jitter' = j
    /\ last_exception' = NoOutcome
    /\ calls' = <<>>
    /\ delays' = <<>>
    /\ result' = NoOutcome
    /\ attempt' = 0
    \* for attempt in range(max_retries + 1): the range is empty when max_retries < 0
    /\ rpc' = IF 0 < r + 1 THEN "calling" ELSE "returned"

\* The loop body when func returns: `return func(*args, **kwargs)`.
wrapper_returns(v) ==
    /\ rpc = "calling"
    /\ calls' = Append(calls, Ret(v))
    /\ result' = Ret(v)
    /\ rpc' = "returned"
    /\ UNCHANGED <<variant, max_retries, base_delay, max_delay, jitter, attempt,
                   last_exception, delays>>

\* The loop body when func raises an exception of class k: the two except
\* clauses, up to the sleep call or the raise.
wrapper_catches(k) ==
    LET e == Exc(k, attempt) IN
    /\ rpc = "calling"
    /\ calls' = Append(calls, e)
    /\ IF IsRetryable(k)
       THEN /\ last_exception' = e
            /\ IF RetriesExhausted(attempt, max_retries)
               THEN /\ result' = e
                    /\ rpc' = "raised"
                    /\ UNCHANGED delays
               ELSE /\ \E u \in JitterDraws(jitter) :
                         delays' = Append(delays,
                             JitteredDelay(BackoffDelay(base_delay, attempt, max_delay),
                                           jitter, u))
                    /\ rpc' = "sleeping"
                    /\ UNCHANGED result
       ELSE \* except Exception: raise
            /\ result' = e
            /\ rpc' = "raised"
            /\ UNCHANGED <<last_exception, delays>>
    /\ UNCHANGED <<variant, max_retries, base_delay, max_delay, jitter, attempt>>

\* time.sleep / asyncio.sleep returns: the next iteration, or the code after
\* the loop when the range is used up.
wrapper_wakes ==
    /\ rpc = "sleeping"
    /\ attempt' = attempt + 1
    /\ IF attempt + 1 < max_retries + 1
       THEN /\ rpc' = "calling"
            /\ UNCHANGED result
       ELSE IF last_exception # NoOutcome
            THEN /\ rpc' = "raised"
                 /\ result' = last_exception
            ELSE /\ rpc' = "returned"
                 /\ result' = ReturnsNone
    /\ UNCHANGED <<variant, max_retries, base_delay, max_delay, jitter,
                   last_exception, calls, delays>>

RetryEnter ==
    /\ \E v \in {"sync", "async"}, r \in 0 .. MaxRetries, p \in DelayParams,
          j \in BOOLEAN : wrapper_enter(v, r, p[1], p[2], j)
    /\ UNCHANGED invs

RetryReturns == (\E v \in Values : wrapper_returns(v)) /\ UNCHANGED invs

RetryCatches == (\E k \in ErrorKinds : wrapper_catches(k)) /\ UNCHANGED invs

RetryWakes == wrapper_wakes /\ UNCHANGED invs

\* What a caller-level timeout or cancellation throws into the wrapper at the
\* point where it waits: asyncio.CancelledError in the async wrapper (the way
\* asyncio.wait_for and task.cancel() stop a coroutine), a BaseException such
\* as KeyboardInterrupt in the sync one.  Neither is one of the classes of the
\* retrying clause; `except Exception: raise` re-raises a CancelledError where
\* it is an Exception (Python 3.7) and does not catch it elsewhere.
CancelKinds == {"CancelledError", "KeyboardInterrupt"}

CancelKindOf(v) == IF v = "async" THEN "CancelledError" ELSE "KeyboardInterrupt"

\* The sleep of the retrying clause is interrupted: the exception leaves the
\* except block and the wrapper.
wrapper_sleep_interrupted(k) ==
    /\ rpc = "sleeping"
    /\ result' = Exc(k, attempt)
    /\ rpc' = "raised"
    /\ UNCHANGED <<variant, max_retries, base_delay, max_delay, jitter, attempt,
                   last_exception, calls, delays>>

\* The caller cancels while the call of func is in flight, or during the sleep.
RetryCancelled ==
    /\ \/ wrapper_catches(CancelKindOf(variant))
       \/ wrapper_sleep_interrupted(CancelKindOf(variant))
    /\ UNCHANGED invs

(***************************************************************************)
(* One decorated function called by several callers, one after another or  *)
(* interleaved (threads for exponential_backoff, tasks for the async one).  *)
(* The decorator's parameters are fixed at decoration; attempt,             *)
(* last_exception and delay are locals of wrapper, one set per invocation.  *)
(***************************************************************************)

\* The callers of the decorated function, and the invocations each one makes.
NumCallers == 2
MaxRuns == 2
Callers2 == 1 .. NumCallers

\* What func does in these invocations: it returns, or raises a retryable or
\* a fatal error.
PairKinds == {"AIRateLimitError", "AIProviderError"}

NoInvocation ==
    [pc |-> "idle", attempt |-> 0, last_exception |-> "none", ncalls |-> 0,
     raised |-> "none", delay |-> 0, runs |-> 0]

\* A variant of FirstAttempt for a counter that outlives the invocation.
FirstAttempt_Carried(left_over) == left_over

\* for attempt in range(max_retries + 1): every invocation starts at 0,
\* whatever the attempt numbers other invocations have left or are at
FirstAttempt(left_over) == 0

\* The decorations of the function: max_retries 1 or 2, the delay parameters,
\* with and without jitter.
PairInit ==
    invs \in {[deco |-> [max_retries |-> r, base_delay |-> p[1], max_delay |-> p[2],
                         jitter |-> j],
               run |-> [c \in Callers2 |-> NoInvocation]] :
                 r \in {1, 2}, p \in DelayParams, j \in BOOLEAN}

PairIdle ==
    invs = [deco |-> [max_retries |-> 0, base_delay |-> 1, max_delay |-> 1,
                      jitter |-> FALSE],
            run |-> [c \in Callers2 |-> NoInvocation]]

\* The largest attempt number any invocation has reached.
RECURSIVE MaxAttempt(_, _)
MaxAttempt(run, n) ==
    IF n = 0 THEN 0
    ELSE LET m == MaxAttempt(run, n - 1) IN
         IF run[n].attempt > m THEN run[n].attempt ELSE m

\* Caller c calls the decorated function.  An invocation is recorded by its
\* position, its locals attempt and last_exception, the number of calls of
\* func it has made, the delay of its last sleep, and the class it raised.
inv_enter(c) ==
    LET x == invs.run[c]
        first == FirstAttempt(MaxAttempt(invs.run, NumCallers))
    IN  /\ x.pc \in {"idle", "returned", "raised"}
        /\ x.runs < MaxRuns
        /\ invs' = [invs EXCEPT !.run[c] =
              [NoInvocation EXCEPT
                  !.pc = IF first < invs.deco.max_retries + 1 THEN "calling"
                         ELSE "returned",
                  !.attempt = first, !.runs = x.runs + 1]]

\* func returns in the invocation of caller c.
inv_returns(c) ==
    LET x == invs.run[c] IN
    /\ x.pc = "calling"
    /\ invs' = [invs EXCEPT !.run[c] =
          [x EXCEPT !.pc = "returned", !.ncalls = x.ncalls + 1]]

\* func raises an exception of class k in the invocation of caller c.
inv_catches(c, k) ==
    LET x == invs.run[c]
        d == invs.deco
    IN  /\ x.pc = "calling"
        /\ IF IsRetryable(k) /\ ~RetriesExhausted(x.attempt, d.max_retries)
           THEN \E u \in JitterDraws(d.jitter) :
                   invs' = [invs EXCEPT !.run[c] =
                      [x EXCEPT !.pc = "sleeping", !.last_exception = k,
                                !.ncalls = x.ncalls + 1,
                                !.delay = JitteredDelay(
                                    BackoffDelay(d.base_delay, x.attempt, d.max_delay),
                                    d.jitter, u)]]
           ELSE invs' = [invs EXCEPT !.run[c] =
                   [x EXCEPT !.pc = "raised", !.ncalls = x.ncalls + 1, !.raised = k,
                             !.last_exception = IF IsRetryable(k) THEN k
                                                ELSE x.last_exception]]

\* The sleep of the invocation of caller c returns; the delay recorded is
\* that of the sleep in progress only.
inv_wakes(c) ==
    LET x == invs.run[c] IN
    /\ x.pc = "sleeping"
    /\ invs' = [invs EXCEPT !.run[c] =
          [x EXCEPT !.attempt = x.attempt + 1, !.delay = 0,
                    !.pc = IF x.attempt + 1 < invs.deco.max_retries + 1
                           THEN "calling" ELSE "raised",
                    !.raised = IF x.attempt + 1 < invs.deco.max_retries + 1
                               THEN "none" ELSE x.last_exception]]

PairEnter == (\E c \in Callers2 : inv_enter(c)) /\ UNCHANGED wrapperVars
PairReturns == (\E c \in Callers2 : inv_returns(c)) /\ UNCHANGED wrapperVars
PairCatches ==
    (\E c \in Callers2, k \in PairKinds : inv_catches(c, k)) /\ UNCHANGED wrapperVars
PairWakes == (\E c \in Callers2 : inv_wakes(c)) /\ UNCHANGED wrapperVars

(***************************************************************************)
(* STRUCTURED RESPONSE PARSER  (src/prompts/base.py, onboarding.py,        *)
(* pondering.py)                                                           *)
(*                                                                         *)
(* A text is a sequence of tokens: an opening tag "<t>", a closing tag     *)
(* "</t>", a whitespace token (" " or "\n") or a word.  The regular        *)
(* expressions of the parser only look for whole tags, so they see a text  *)
(* the way this tokenisation presents it.  An Optional[str] is <<>> for    *)
(* None and <<s>> for the string s.                                        *)
(***************************************************************************)
None == <<>>
Some(x) == <<x>>
IsNone(o) == o = <<>>
\* `o or ""` for an Optional[str]
OrEmpty(o) == IF o = <<>> THEN <<>> ELSE o[1]
\* bool(o) for an Optional[str]: None and "" are falsy
TruthyStr(o) == o # <<>> /\ o[1] # <<>>

OpenTag(tag) == "<" \o tag \o ">"
CloseTag(tag) == "</" \o tag \o ">"

\* str.isspace for one token
IsSpace(tok) == tok \in {" ", "\n"}

\* str.lower for one token: the words of the model that have capitals
LowerTok(tok) ==
    CASE tok = "TRUE" -> "true"
      [] tok = "True" -> "true"
      [] tok = "FALSE" -> "false"
      [] tok = "Thought" -> "thought"
      [] tok = "FEELING" -> "feeling"
      [] tok = "Invalid" -> "invalid"
      [] OTHER -> tok

\* str.lower
Lower(s) == [i \in 1 .. Len(s) |-> LowerTok(s[i])]

RECURSIVE LStrip(_)
LStrip(s) == IF s # <<>> /\ IsSpace(Head(s)) THEN LStrip(Tail(s)) ELSE s

RECURSIVE RStrip(_)
RStrip(s) ==
    IF s # <<>> /\ IsSpace(s[Len(s)]) THEN RStrip(SubSeq(s, 1, Len(s) - 1)) ELSE s

\* str.strip
Strip(s) == RStrip(LStrip(s))

\* The positions i < j of the first match of <tag>(.*?)</tag> at or after
\* position from: the leftmost opening tag that a closing tag follows, and
\* the nearest closing tag after it.  <<>> when there is no match.
FirstMatch(text, tag, from) ==
    LET opens == {i \in from .. Len(text) :
                     /\ text[i] = OpenTag(tag)
                     /\ \E j \in i + 1 .. Len(text) : text[j] = CloseTag(tag)}
    IN  IF opens = {} THEN <<>>
        ELSE LET i == CHOOSE x \in opens : \A y \in opens : x <= y
                 j == CHOOSE x \in i + 1 .. Len(text) :
                          /\ text[x] = CloseTag(tag)
                          /\ \A y \in i + 1 .. x - 1 : text[y] # CloseTag(tag)
             IN  <<i, j>>

\* A variant of extract_tag with a greedy pattern, <tag>(.*)</tag>.
extract_tag_Greedy(text, tag) ==
    LET m == FirstMatch(text, tag, 1) IN
    IF m = <<>> THEN None
    ELSE LET j == CHOOSE x \in m[1] + 1 .. Len(text) :
                      /\ text[x] = CloseTag(tag)
                      /\ \A y \in x + 1 .. Len(text) : text[y] # CloseTag(tag)
         IN  Some(Strip(SubSeq(text, m[1] + 1, j - 1)))

\* A variant of extract_tag that does not trim the inner text.
extract_tag_NoStrip(text, tag) ==
    LET m == FirstMatch(text, tag, 1) IN
    IF m = <<>> THEN None ELSE Some(SubSeq(text, m[1] + 1, m[2] - 1))

\* extract_tag: match.group(1).strip() if match else None
extract_tag(text, tag) ==
    LET m == FirstMatch(text, tag, 1) IN
    IF m = <<>> THEN None ELSE Some(Strip(SubSeq(text, m[1] + 1, m[2] - 1)))

\* re.finditer: the successive non-overlapping matches from position from on,
\* each group stripped
RECURSIVE FindAll(_, _, _)
FindAll(text, tag, from) ==
    LET m == FirstMatch(text, tag, from) IN
    IF m = <<>> THEN <<>>
    ELSE <<Strip(SubSeq(text, m[1] + 1, m[2] - 1))>> \o FindAll(text, tag, m[2] + 1)

\* A variant of extract_list that looks for the items in the whole text.
extract_list_WholeText(text, parent_tag, item_tag) ==
    LET parent_content == extract_tag(text, parent_tag) IN
    IF ~TruthyStr(parent_content) THEN <<>>
    ELSE FindAll(text, item_tag, 1)

\* extract_list
extract_list(text, parent_tag, item_tag) ==
    LET parent_content == extract_tag(text, parent_tag) IN
    IF ~TruthyStr(parent_content) THEN <<>>
    ELSE FindAll(parent_content[1], item_tag, 1)

\* `s and s.lower() == "true"` for an Optional[str] s: the Python value is s
\* itself when s is falsy (None or ""), and the bool otherwise.
AndIsTrue(o) ==
    IF o = None THEN "None"
    ELSE IF o[1] = <<>> THEN "EmptyStr"
    ELSE IF Lower(o[1]) = <<"true">> THEN "True" ELSE "False"

\* bool(v) for such a value
Truthy(v) == v = "True"

VALID_CATEGORIES == {<<"thought">>, <<"observation">>, <<"feeling">>, <<"invalid">>}

\* A variant of PonderingResult_parse without the final `if not is_valid` block.
PonderingResult_parse_NoReset(llm_output) ==
    LET classification == extract_tag(llm_output, "classification")
        is_valid == AndIsTrue(extract_tag(OrEmpty(classification), "is_valid"))
        category0 == extract_tag(OrEmpty(classification), "category")
        category1 == Strip(Lower(IF TruthyStr(category0) THEN category0[1]
                                 ELSE <<"invalid">>))
        category2 == IF category1 \notin VALID_CATEGORIES THEN <<"invalid">> ELSE category1
    IN  [is_valid |-> is_valid,
         category |-> category2,
         cleaned_content |-> extract_tag(llm_output, "cleaned"),
         interpretation |-> extract_tag(llm_output, "interpretation")]

\* A variant of PonderingResult_parse without the check against
\* valid_categories.
PonderingResult_parse_AnyCategory(llm_output) ==
    LET classification == extract_tag(llm_output, "classification")
        is_valid == AndIsTrue(extract_tag(OrEmpty(classification), "is_valid"))
        category0 == extract_tag(OrEmpty(classification), "category")
        category1 == Strip(Lower(IF TruthyStr(category0) THEN category0[1]
                                 ELSE <<"invalid">>))
        cleaned0 == extract_tag(llm_output, "cleaned")
        cleaned1 == IF TruthyStr(cleaned0) THEN Some(Strip(cleaned0[1])) ELSE cleaned0
        interp0 == extract_tag(llm_output, "interpretation")
        interp1 == IF TruthyStr(interp0) THEN Some(Strip(interp0[1])) ELSE interp0
    IN  IF ~Truthy(is_valid)
        THEN [is_valid |-> is_valid, category |-> <<"invalid">>,
              cleaned_content |-> None, interpretation |-> None]
        ELSE [is_valid |-> is_valid, category |-> category1,
              cleaned_content |-> cleaned1, interpretation |-> interp1]

\* PonderingResult.parse
PonderingResult_parse(llm_output) ==
    LET classification == extract_tag(llm_output, "classification")
        is_valid_str == extract_tag(OrEmpty(classification), "is_valid")
        is_valid == AndIsTrue(is_valid_str)
        category0 == extract_tag(OrEmpty(classification), "category")
        \* category = extract_tag(...) or "invalid"; category.lower().strip()
        category1 == Strip(Lower(IF TruthyStr(category0) THEN category0[1]
                                 ELSE <<"invalid">>))
        category2 == IF category1 \notin VALID_CATEGORIES THEN <<"invalid">> ELSE category1
        cleaned0 == extract_tag(llm_output, "cleaned")
        cleaned1 == IF TruthyStr(cleaned0) THEN Some(Strip(cleaned0[1])) ELSE cleaned0
        interp0 == extract_tag(llm_output, "interpretation")
        interp1 == IF TruthyStr(interp0) THEN Some(Strip(interp0[1])) ELSE interp0
    IN  IF ~Truthy(is_valid)
        THEN [is_valid |-> is_valid, category |-> <<"invalid">>,
              cleaned_content |-> None, interpretation |-> None]
        ELSE [is_valid |-> is_valid, category |-> category2,
              cleaned_content |-> cleaned1, interpretation |-> interp1]

\* OnboardingResult.parse
OnboardingResult_parse(llm_output) ==
    LET response0 == extract_tag(llm_output, "response")
        response_text == IF ~TruthyStr(response0) THEN Strip(llm_output) ELSE response0[1]
        status_content == extract_tag(llm_output, "onboarding_status")
        complete_str == IF TruthyStr(status_content)
                        THEN extract_tag(OrEmpty(status_content), "complete")
                        ELSE None
        is_complete == AndIsTrue(complete_str)
        profile_content == extract_tag(llm_output, "profile")
        with_profile == Truthy(is_complete) /\ TruthyStr(profile_content)
    IN  [response_text |-> response_text,
         is_complete |-> is_complete,
         daily_intentions |-> IF with_profile
             THEN extract_list(profile_content[1], "daily_intentions", "intention")
             ELSE <<>>,
         values |-> IF with_profile
             THEN extract_list(profile_content[1], "values", "value") ELSE <<>>,
         goals |-> IF with_profile
             THEN extract_list(profile_content[1], "goals", "goal") ELSE <<>>]

(***************************************************************************)
(* The texts the parsers are applied to.                                   *)
(***************************************************************************)

\* Largest number of newlines between two sections of a backend text.
MaxPad == 1

Tagged(tag, body) == <<OpenTag(tag)>> \o body \o <<CloseTag(tag)>>

RECURSIVE Pad(_)
Pad(n) == IF n = 0 THEN <<>> ELSE <<"\n">> \o Pad(n - 1)

IsValidSegs ==
    {<<>>, Tagged("is_valid", <<>>), Tagged("is_valid", <<"yes">>)}
    \cup {Tagged("is_valid", w) :
            w \in {<<"true">>, <<"TRUE">>, <<" ", "true", "\n">>, <<"false">>}}

CategorySegs ==
    {<<>>, Tagged("category", <<>>)}
    \cup {Tagged("category", <<w>>) :
            w \in {"thought", "observation", "feeling", "invalid", "Thought", "bogus"}}

\* The classification section: well formed, or its two fields without the
\* enclosing tag, or left open.
ClassificationSegs ==
    {Tagged("classification", a \o b) : a \in IsValidSegs, b \in CategorySegs}
    \cup {a \o b : a \in {<<>>, Tagged("is_valid", <<"true">>)},
                   b \in {<<>>, Tagged("category", <<"feeling">>)}}
    \cup {<<OpenTag("classification")>> \o Tagged("is_valid", <<"true">>)}

\* A free-text section: absent, empty, filled, or left open.
FreeTextSegs(tag, word) ==
    {<<>>, Tagged(tag, <<>>), Tagged(tag, <<"\n", word, "\n">>), <<OpenTag(tag), word>>}

PonderingTexts ==
    {c \o Pad(n) \o cl \o Pad(n) \o it :
        c \in ClassificationSegs,
        cl \in FreeTextSegs("cleaned", "tired"),
        it \in FreeTextSegs("interpretation", "rest"),
        n \in 0 .. MaxPad}

ParseIdle ==
    /\ parser_input = <<>>
    /\ parsed = [kind |-> "none"]

ParseInit ==
    /\ parser_input \in PonderingTexts
    /\ parsed = [kind |-> "none"]

\* PonderingResult.parse(parser_input)
ParsePondering ==
    /\ parsed.kind = "none"
    /\ parsed' = [kind |-> "pondering", r |-> PonderingResult_parse(parser_input)]
    /\ UNCHANGED parser_input

\* OnboardingResult.parse(parser_input)
ParseOnboarding ==
    /\ parsed.kind = "none"
    /\ parsed' = [kind |-> "onboarding", r |-> OnboardingResult_parse(parser_input)]
    /\ UNCHANGED parser_input

(***************************************************************************)
(* PROVIDER ADAPTER  (src/ai_client/anthropic.py)                          *)
(*                                                                         *)
(* The backend is the anthropic SDK.  Its exception classes form the tree  *)
(*   Exception > APIError > APIStatusError > RateLimitError,               *)
(*       AuthenticationError, NotFoundError, BadRequestError,              *)
(*       InternalServerError                                               *)
(*   APIError > APIConnectionError > APITimeoutError                       *)
(* and an except clause catches a class and its subclasses.  RuntimeError  *)
(* stands for any exception that is no APIError.  The text of an exception *)
(* is a sequence of words; status_code 0 stands for None.                  *)
(***************************************************************************)
StatusErrorClasses == {"RateLimitError", "AuthenticationError", "NotFoundError",
                       "BadRequestError", "InternalServerError"}
ConnectionErrorClasses == {"APIConnectionError", "APITimeoutError"}
APIErrorClasses == StatusErrorClasses \cup ConnectionErrorClasses
\* ConnectionError and TimeoutError are the Python builtins, no APIError either.
BackendErrorClasses == APIErrorClasses \cup {"RuntimeError", "ConnectionError", "TimeoutError"}

\* getattr(e, 'status_code', None)
StatusCodeOf(cls) ==
    CASE cls = "RateLimitError" -> 429
      [] cls = "AuthenticationError" -> 401
      [] cls = "NotFoundError" -> 404
      [] cls = "BadRequestError" -> 400
      [] cls = "InternalServerError" -> 500
      [] OTHER -> 0

\* str(e) of the exceptions the backend raises
ErrorTexts == {<<"Model", "not", "found">>, <<"model", "gone">>,
               <<"models", "endpoint", "missing">>, <<"resource", "not", "found">>,
               <<"Quota", "exceeded">>, <<"rate", "LIMIT", "reached">>,
               <<"unlimited", "plan", "required">>, <<"bad", "request">>, <<>>}

\* str.lower for one word of an exception text
LowerWord(w) ==
    CASE w = "Model" -> "model"
      [] w = "Quota" -> "quota"
      [] w = "LIMIT" -> "limit"
      [] OTHER -> w

\* needle in word, for lower-case words
WordContains(w, needle) ==
    CASE needle = "model" -> w \in {"model", "models"}
      [] needle = "quota" -> w \in {"quota"}
      [] needle = "limit" -> w \in {"limit", "unlimited"}
      [] OTHER -> FALSE

\* A variant of InLower that compares without lowering the text.
InLower_CaseSensitive(needle, text) ==
    \E i \in 1 .. Len(text) : WordContains(text[i], needle)

\* needle in str(e).lower()
InLower(needle, text) ==
    \E i \in 1 .. Len(text) : WordContains(LowerWord(text[i]), needle)

available_models == <<"claude-sonnet-4-20250514", "claude-3-5-sonnet-20241022",
                      "claude-3-5-haiku-20241022", "claude-3-opus-20240229",
                      "claude-3-sonnet-20240229", "claude-3-haiku-20240307">>

\* self._default_model = config.get("default_model", "claude-3-5-haiku-20241022"),
\* for an adapter built without the option
default_model == "claude-3-5-haiku-20241022"

\* The model argument of a call: None (""), a supported model, an unknown one.
ModelArgs == {"", "claude-sonnet-4-20250514", "claude-9"}

\* model = model or self.default_model
ResolveModel(model) == IF model = "" THEN default_model ELSE model

\* An error of the taxonomy, src/ai_client/exceptions.py
AIError(kind, message, e, status_code) ==
    [kind |-> kind, message |-> message, provider |-> "anthropic",
     original_error |-> e, status_code |-> status_code]

\* A variant of TranslateError whose clause for NotFoundError never looks at the text.
TranslateError_NotFoundAlwaysModel(e, model) ==
    AIError("AIModelNotFoundError",
            <<"Model not found: ", model, ". Available models: ">> \o available_models,
            e, StatusCodeOf(e.cls))

\* The except clauses of generate, in their order (lines 105-161).
TranslateError(e, model) ==
    IF e.cls = "RateLimitError"
    THEN AIError("AIRateLimitError", <<"Anthropic rate limit exceeded: ">> \o e.text,
                 e, StatusCodeOf(e.cls))
    ELSE IF e.cls = "AuthenticationError"
    THEN AIError("AIAuthenticationError", <<"Anthropic authentication failed: ">> \o e.text,
                 e, StatusCodeOf(e.cls))
    ELSE IF e.cls = "NotFoundError"
    THEN IF InLower("model", e.text)
         THEN AIError("AIModelNotFoundError",
                      <<"Model not found: ", model, ". Available models: ">>
                          \o available_models,
                      e, StatusCodeOf(e.cls))
         ELSE AIError("AIProviderError", <<"Anthropic API error: ">> \o e.text,
                      e, StatusCodeOf(e.cls))
    ELSE IF e.cls = "BadRequestError"
    THEN IF InLower("quota", e.text) \/ InLower("limit", e.text)
         THEN AIError("AIQuotaExceededError", <<"Anthropic quota exceeded: ">> \o e.text,
                      e, StatusCodeOf(e.cls))
         ELSE AIError("AIProviderError", <<"Anthropic bad request: ">> \o e.text,
                      e, StatusCodeOf(e.cls))
    ELSE IF e.cls \in APIErrorClasses
    THEN AIError("AIProviderError", <<"Anthropic API error: ">> \o e.text,
                 e, StatusCodeOf(e.cls))
    ELSE \* except Exception: no status_code is passed
         AIError("AIProviderError", <<"Unexpected error from Anthropic: ">> \o e.text, e, 0)

\* The except clauses of generate_sync, in their order (lines 219-267).
TranslateErrorSync(e, model) ==
    IF e.cls = "RateLimitError"
    THEN AIError("AIRateLimitError", <<"Anthropic rate limit exceeded: ">> \o e.text,
                 e, StatusCodeOf(e.cls))
    ELSE IF e.cls = "AuthenticationError"
    THEN AIError("AIAuthenticationError", <<"Anthropic authentication failed: ">> \o e.text,
                 e, StatusCodeOf(e.cls))
    ELSE IF e.cls = "NotFoundError"
    THEN IF InLower("model", e.text)
         THEN AIError("AIModelNotFoundError",
                      <<"Model not found: ", model, ". Available models: ">>
                          \o available_models,
                      e, StatusCodeOf(e.cls))
         ELSE AIError("AIProviderError", <<"Anthropic API error: ">> \o e.text,
                      e, StatusCodeOf(e.cls))
    ELSE IF e.cls = "BadRequestError"
    THEN AIError("AIProviderError", <<"Anthropic bad request: ">> \o e.text,
                 e, StatusCodeOf(e.cls))
    ELSE IF e.cls \in APIErrorClasses
    THEN AIError("AIProviderError", <<"Anthropic API error: ">> \o e.text,
                 e, StatusCodeOf(e.cls))
    ELSE AIError("AIProviderError", <<"Unexpected error from Anthropic: ">> \o e.text, e, 0)

\* The message lists a call is given: AIMessage(role, content), a dataclass
\* that takes any role and any content.  Besides well-formed lists: the empty
\* list, an empty and a whitespace-only content, a role that is none of the
\* three, and an empty system message.
AIMsg(role, content) == [role |-> role, content |-> content]
MessageLists ==
    {<<AIMsg("user", "hi")>>,
     <<AIMsg("system", "be terse"), AIMsg("user", "hi")>>,
     <<AIMsg("system", "be terse"), AIMsg("user", "hi"), AIMsg("system", "be kind"),
       AIMsg("assistant", "hello")>>,
     <<AIMsg("user", "hi"), AIMsg("system", "be kind")>>,
     <<>>,
     <<AIMsg("user", "")>>,
     <<AIMsg("user", "hi"), AIMsg("assistant", " ")>>,
     <<AIMsg("tool", "hi")>>,
     <<AIMsg("system", ""), AIMsg("user", "hi")>>}

\* not msg.content.strip(), for the contents above
IsBlank(content) == content \in {"", " "}

\* BaseAIProvider._validate_messages: "ok", or the text of the ValueError of
\* the first check that fails.
RECURSIVE validate_each(_)
validate_each(messages) ==
    IF messages = <<>> THEN "ok"
    ELSE IF Head(messages).role \notin {"user", "assistant", "system"}
    THEN "Invalid role"
    ELSE IF IsBlank(Head(messages).content)
    THEN "Message content cannot be empty"
    ELSE validate_each(Tail(messages))

validate_messages(messages) ==
    IF messages = <<>> THEN "Messages list cannot be empty"
    ELSE validate_each(messages)

\* _separate_system_message: system_prompt is the content of the last system
\* message the loop meets (None, <<>>, when there is none); the others are
\* passed in order.
RECURSIVE separate_system_message(_)
separate_system_message(messages) ==
    IF messages = <<>> THEN [system_prompt |-> None, conversation_messages |-> <<>>]
    ELSE LET n == Len(messages)
             init == separate_system_message(SubSeq(messages, 1, n - 1))
             msg == messages[n]
         IN  IF msg.role = "system"
             THEN [init EXCEPT !.system_prompt = Some(msg.content)]
             ELSE [init EXCEPT !.conversation_messages = Append(@, msg)]

\* A content block of a response: a text block, or a block without a text
\* attribute, which str(block) renders.  Texts are sequences of pieces.
TextBlock(t) == [has_text |-> TRUE, text |-> t]
OtherBlock(t) == [has_text |-> FALSE, text |-> t]

\* response.usage: absent (<<>>), or an object with some of the attributes
\* input_tokens and output_tokens, and possibly a total of its own.
UsageObjects ==
    {<<>>,
     <<[k \in {"input_tokens", "output_tokens"} |-> IF k = "input_tokens" THEN 3 ELSE 5]>>,
     <<[k \in {"input_tokens", "output_tokens", "total_tokens"} |->
           CASE k = "input_tokens" -> 3 [] k = "output_tokens" -> 5 [] OTHER -> 99]>>,
     <<[k \in {"input_tokens"} |-> 3]>>,
     <<[k \in {} |-> 0]>>}

\* getattr(obj, name, default)
Getattr(obj, name, default) == IF name \in DOMAIN obj THEN obj[name] ELSE default

\* The responses of the backend: content blocks, the model, and usage.
BackendResponses ==
    {[content |-> c, model |-> "claude-sonnet-4-20250514", usage |-> u] :
        c \in {<<>>, <<TextBlock(<<"Hel", "lo">>)>>,
               <<TextBlock(<<"Hel">>), TextBlock(<<"lo">>)>>,
               <<TextBlock(<<"Hel">>), OtherBlock(<<"ToolUseBlock()">>)>>},
        u \in UsageObjects}

\* "".join(block.text if hasattr(block, 'text') else str(block) for block in ...)
RECURSIVE Join(_)
Join(blocks) == IF blocks = <<>> THEN <<>> ELSE Head(blocks).text \o Join(Tail(blocks))

\* A variant of extract_usage_info that takes the total the backend reports.
extract_usage_info_TrustsTotal(response) ==
    IF response.usage # <<>>
    THEN [prompt_tokens |-> Getattr(response.usage[1], "input_tokens", 0),
          completion_tokens |-> Getattr(response.usage[1], "output_tokens", 0),
          total_tokens |-> Getattr(response.usage[1], "total_tokens",
                                   Getattr(response.usage[1], "input_tokens", 0)
                                   + Getattr(response.usage[1], "output_tokens", 0))]
    ELSE [prompt_tokens |-> 0, completion_tokens |-> 0, total_tokens |-> 0]

\* _extract_usage_info
extract_usage_info(response) ==
    IF response.usage # <<>>
    THEN [prompt_tokens |-> Getattr(response.usage[1], "input_tokens", 0),
          completion_tokens |-> Getattr(response.usage[1], "output_tokens", 0),
          total_tokens |-> Getattr(response.usage[1], "input_tokens", 0)
                           + Getattr(response.usage[1], "output_tokens", 0)]
    ELSE [prompt_tokens |-> 0, completion_tokens |-> 0, total_tokens |-> 0]

\* AIResponse(content=..., model=response.model, usage=usage_info)
AIResponseOf(response) ==
    [content |-> Join(response.content), model |-> response.model,
     usage |-> extract_usage_info(response)]

BackendOutcomes ==
    {[ok |-> TRUE, resp |-> r] : r \in BackendResponses}
    \cup {[ok |-> FALSE, exc |-> [cls |-> c, text |-> t]] :
             c \in BackendErrorClasses, t \in ErrorTexts}

\* The params of messages.create (max_tokens and temperature left out).
BuildParams(messages, model) ==
    LET sep == separate_system_message(messages) IN
    [model |-> ResolveModel(model),
     messages |-> sep.conversation_messages,
     \* if system_prompt: params["system"] = system_prompt
     system |-> IF sep.system_prompt # None /\ sep.system_prompt[1] # ""
                THEN sep.system_prompt ELSE None]

AdapterInit ==
    /\ gen_call = [path |-> "none"]
    /\ gen_params = [model |-> ""]
    /\ gen_result = [status |-> "none"]

\* async generate(messages, model): one call, to its return or raise
generate(messages, model, outcome) ==
    /\ gen_call.path = "none"
    /\ gen_call' = [path |-> "generate", messages |-> messages, model |-> model,
                    \* nothing comes between the building of params and
                    \* messages.create(**params): the call is always made
                    backend_called |-> TRUE, backend |-> outcome]
    /\ gen_params' = BuildParams(messages, model)
    /\ gen_result' =
          IF outcome.ok
          THEN [status |-> "returned", response |-> AIResponseOf(outcome.resp)]
          ELSE [status |-> "raised",
                error |-> TranslateError(outcome.exc, ResolveModel(model))]

\* generate_sync(messages, model): one call, to its return or raise
generate_sync(messages, model, outcome) ==
    /\ gen_call.path = "none"
    /\ gen_call' = [path |-> "generate_sync", messages |-> messages, model |-> model,
                    \* nothing comes between the building of params and
                    \* messages.create(**params): the call is always made
                    backend_called |-> TRUE, backend |-> outcome]
    /\ gen_params' = BuildParams(messages, model)
    /\ gen_result' =
          IF outcome.ok
          THEN [status |-> "returned", response |-> AIResponseOf(outcome.resp)]
          ELSE [status |-> "raised",
                error |-> TranslateErrorSync(outcome.exc, ResolveModel(model))]

Generate ==
    \E ms \in MessageLists, m \in ModelArgs, o \in BackendOutcomes : generate(ms, m, o)

GenerateSync ==
    \E ms \in MessageLists, m \in ModelArgs, o \in BackendOutcomes :
        generate_sync(ms, m, o)

(***************************************************************************)
(* FACTORY AND INSTANCE CACHE  (src/ai_client/factory.py, config.py)       *)
(*                                                                         *)
(* A dict is a function from its keys; option values are strings.          *)
(* ProviderType has the one member ANTHROPIC.                              *)
(***************************************************************************)

\* Largest number of adapters constructed in one run.
MaxInstances == 3

ProviderTypes == {"anthropic"}

EmptyDict == [k \in {} |-> ""]

\* {**a, **b}
MergeDicts(a, b) ==
    [k \in DOMAIN a \cup DOMAIN b |-> IF k \in DOMAIN b THEN b[k] ELSE a[k]]

\* ProviderConfig(provider_type, api_key, default_model, extra_config)
ProviderConfig(api_key, model, extra) ==
    [api_key |-> api_key, default_model |-> model, extra_config |-> extra]

\* AIClientConfig.from_env(): the provider is configured only when the key is set
AIClientConfig_from_env(key) ==
    [default_provider |-> "anthropic",
     providers |-> [t \in ProviderTypes |->
                       IF key # ""
                       THEN <<ProviderConfig(key, "claude-3-5-sonnet-20241022", EmptyDict)>>
                       ELSE <<>>]]

\* A configuration handed to AIClientFactory(config): extra options, no key of
\* its own when has_key is false.
ExplicitConfig(has_key) ==
    [default_provider |-> "anthropic",
     providers |-> [t \in ProviderTypes |->
                       <<ProviderConfig(IF has_key THEN "sk-cfg" ELSE "",
                                        "claude-3-opus-20240229",
                                        [k \in {"timeout"} |-> "10"])>>]]

\* The **override_config a call is given.
OverrideDicts ==
    {EmptyDict, [k \in {"timeout"} |-> "30"], [k \in {"timeout", "retries"} |-> "2"],
     [k \in {"default_model"} |-> "claude-3-haiku-20240307"]}

\* A variant of AnthropicProvider_new whose constructor accepts a missing key.
AnthropicProvider_new_NoKeyCheck(api_key, model, extra_config, env_key) ==
    IF {"api_key", "default_model"} \cap DOMAIN extra_config # {}
    THEN [ok |-> FALSE, error |-> "TypeError"]
    ELSE [ok |-> TRUE,
          instance |-> [api_key |-> IF api_key # "" THEN api_key ELSE env_key,
                        default_model |-> model,
                        config |-> MergeDicts([k \in {"default_model"} |-> model],
                                              extra_config)]]

\* AnthropicProvider(api_key=..., default_model=..., **extra_config): the outcome of
\* the construction, an instance or the exception raised.
AnthropicProvider_new(api_key, model, extra_config, env_key) ==
    IF {"api_key", "default_model"} \cap DOMAIN extra_config # {}
    THEN \* the call passes the keyword twice
         [ok |-> FALSE, error |-> "TypeError"]
    ELSE LET key == IF api_key # "" THEN api_key ELSE env_key IN
         IF key = ""
         THEN [ok |-> FALSE, error |-> "ValueError"]
         ELSE [ok |-> TRUE,
               instance |-> [api_key |-> key, default_model |-> model,
                             config |-> MergeDicts([k \in {"default_model"} |-> model],
                                                   extra_config)]]

\* A variant of UsesCache that forgets the overrides.
UsesCache_IgnoresOverrides(cache, provider, override_config) ==
    cache[provider] # 0

\* if cache_key in self._provider_cache and not override_config
UsesCache(cache, provider, override_config) ==
    cache[provider] # 0 /\ DOMAIN override_config = {}

\* A variant of StoresInCache that caches every instance built.
StoresInCache_Always(override_config) == TRUE

\* if not override_config: self._provider_cache[cache_key] = instance
StoresInCache(override_config) == DOMAIN override_config = {}

\* The threads that share one factory.
NumThreads == 2
Threads == 1 .. NumThreads

\* A thread that is not inside create_provider and has made no call yet.
NoThreadCall == [pc |-> "idle", instance |-> 0, outcome |-> "none", returned |-> 0,
                 error |-> ""]

FactoryCall(op, provider_type, override_config, outcome, instance, error) ==
    [op |-> op, provider_type |-> provider_type, override_config |-> override_config,
     outcome |-> outcome, instance |-> instance, error |-> error]

FactoryIdle ==
    /\ env_api_key = ""
    /\ factory_config = AIClientConfig_from_env("")
    /\ provider_cache = [t \in ProviderTypes |-> 0]
    /\ instances = <<>>
    /\ fac_call = FactoryCall("none", "", EmptyDict, "none", 0, "")
    /\ default_returned = [t \in ProviderTypes |-> 0]
    /\ fac_threads = [t \in Threads |-> NoThreadCall]

\* AIClientFactory(config): config or AIClientConfig.from_env()
FactoryInit ==
    /\ env_api_key \in {"", "sk-env"}
    /\ factory_config \in {AIClientConfig_from_env(env_api_key),
                           ExplicitConfig(TRUE), ExplicitConfig(FALSE)}
    /\ provider_cache = [t \in ProviderTypes |-> 0]
    /\ instances = <<>>
    /\ fac_call = FactoryCall("none", "", EmptyDict, "none", 0, "")
    /\ default_returned = [t \in ProviderTypes |-> 0]
    /\ fac_threads = [t \in Threads |-> NoThreadCall]

\* create_provider(provider_type, **override_config); provider_type "" is None
create_provider(op, provider_type, override_config) ==
    LET provider == IF provider_type # "" THEN provider_type
                    ELSE factory_config.default_provider
        hist(i) == IF DOMAIN override_config = {}
                   THEN [default_returned EXCEPT ![provider] = i]
                   ELSE default_returned
    IN
    /\ UNCHANGED <<factory_config, env_api_key, fac_threads>>
    /\ IF UsesCache(provider_cache, provider, override_config)
       THEN /\ fac_call' = FactoryCall(op, provider_type, override_config, "returned",
                                       provider_cache[provider], "")
            /\ default_returned' = hist(provider_cache[provider])
            /\ UNCHANGED <<provider_cache, instances>>
       ELSE IF factory_config.providers[provider] = <<>>
       THEN \* get_provider_config raises ValueError
            /\ fac_call' = FactoryCall(op, provider_type, override_config, "raised",
                                       0, "ValueError")
            /\ UNCHANGED <<provider_cache, instances, default_returned>>
       ELSE LET provider_config == factory_config.providers[provider][1]
                final_config == MergeDicts(provider_config.extra_config, override_config)
                built == AnthropicProvider_new(provider_config.api_key,
                                               provider_config.default_model,
                                               final_config, env_api_key)
                id == Len(instances) + 1
            IN  IF ~built.ok
                THEN /\ fac_call' = FactoryCall(op, provider_type, override_config,
                                                "raised", 0, built.error)
                     /\ UNCHANGED <<provider_cache, instances, default_returned>>
                ELSE /\ Len(instances) < MaxInstances
                     /\ instances' = Append(instances, built.instance)
                     /\ provider_cache' =
                           IF StoresInCache(override_config)
                           THEN [provider_cache EXCEPT ![provider] = id]
                           ELSE provider_cache
                     /\ fac_call' = FactoryCall(op, provider_type, override_config,
                                                "returned", id, "")
                     /\ default_returned' = hist(id)

\* A variant of ClearedCache that leaves the entries in place.
ClearedCache_Keeps(cache) == cache

\* self._provider_cache.clear()
ClearedCache(cache) == [t \in DOMAIN cache |-> 0]

\* clear_cache(): self._provider_cache.clear()
clear_cache ==
    /\ provider_cache' = ClearedCache(provider_cache)
    /\ default_returned' = [t \in ProviderTypes |-> 0]
    /\ fac_call' = FactoryCall("clear_cache", "", EmptyDict, "returned", 0, "")
    /\ UNCHANGED <<factory_config, env_api_key, instances, fac_threads>>

CreateProvider ==
    \E t \in ProviderTypes \cup {""}, o \in OverrideDicts :
        create_provider("create_provider", t, o)

\* get_default_provider(): return self.create_provider()
GetDefaultProvider == create_provider("get_default_provider", "", EmptyDict)

ClearCache == clear_cache

(***************************************************************************)
(* The convenience path: AIClientFactory.create_quick(provider, **config)  *)
(* and create_ai_client(provider, **config), which calls it.               *)
(***************************************************************************)

\* The provider names and the **config a caller passes.
QuickProviders == {"anthropic", "Anthropic", "openai"}
QuickOptions ==
    {EmptyDict, [k \in {"api_key"} |-> "sk-arg"],
     [k \in {"default_model"} |-> "claude-3-haiku-20240307"],
     [k \in {"timeout"} |-> "30"],
     [k \in {"api_key", "timeout"} |-> IF k = "api_key" THEN "sk-arg" ELSE "30"]}

\* provider.lower(), on the names of the model
LowerName(name) == IF name = "Anthropic" THEN "anthropic" ELSE name

\* AnthropicProvider(**config): api_key is the keyword of that name, None when
\* absent, and the other options are the adapter's config.
AnthropicProvider_init(config, env_key) ==
    LET api_key == IF "api_key" \in DOMAIN config THEN config["api_key"] ELSE ""
        rest == [k \in DOMAIN config \ {"api_key"} |-> config[k]]
        key == IF api_key # "" THEN api_key ELSE env_key
    IN  IF key = ""
        THEN [ok |-> FALSE, error |-> "ValueError"]
        ELSE [ok |-> TRUE,
              instance |-> [api_key |-> key,
                            default_model |-> IF "default_model" \in DOMAIN rest
                                              THEN rest["default_model"]
                                              ELSE "claude-3-5-haiku-20241022",
                            config |-> rest]]

\* What create_quick(provider, **config) does when the environment holds env_key:
\* ProviderType(provider.lower()) raises ValueError for an unknown name.
create_quick_outcome(provider, config, env_key) ==
    IF LowerName(provider) \notin ProviderTypes
    THEN [ok |-> FALSE, error |-> "ValueError"]
    ELSE AnthropicProvider_init(config, env_key)

\* create_quick is a classmethod: it reads and writes no factory, no cache.
create_quick(op, provider, config) ==
    LET built == create_quick_outcome(provider, config, env_api_key) IN
    /\ IF built.ok
       THEN /\ Len(instances) < MaxInstances
            /\ instances' = Append(instances, built.instance)
            /\ fac_call' = FactoryCall(op, provider, config, "returned",
                                       Len(instances) + 1, "")
       ELSE /\ fac_call' = FactoryCall(op, provider, config, "raised", 0, built.error)
            /\ UNCHANGED instances
    /\ UNCHANGED <<factory_config, provider_cache, env_api_key, default_returned,
                   fac_threads>>

CreateQuick ==
    \E op \in {"create_quick", "create_ai_client"}, p \in QuickProviders,
       c \in QuickOptions : create_quick(op, p, c)

(***************************************************************************)
(* create_provider() called by several threads on one factory.  The method *)
(* takes no lock, so a thread can be preempted between any two of its       *)
(* statements; a statement on the dictionary is atomic.  A call is the      *)
(* steps: entry (line 36), the cache check and the cached return (lines     *)
(* 40-41), the construction (lines 44-50), the store and return (53-56).   *)
(* The calls carry no overrides and no provider_type.                       *)
(***************************************************************************)

\* The threads between the entry of a call and the end of its construction.
ThreadsBeforeBuild == {u \in Threads : fac_threads[u].pc \in {"line40", "line44"}}

\* line 36: provider = provider_type or self.config.default_provider
thread_calls(t) ==
    /\ fac_threads[t].pc \in {"idle", "done"}
    /\ Len(instances) + Cardinality(ThreadsBeforeBuild) < MaxInstances
    /\ fac_threads' = [fac_threads EXCEPT ![t] = [NoThreadCall EXCEPT !.pc = "line40"]]
    /\ UNCHANGED <<factory_config, provider_cache, instances, env_api_key, fac_call,
                   default_returned>>

\* lines 40-41: if cache_key in self._provider_cache and not override_config:
\*                  return self._provider_cache[cache_key]
thread_checks_cache(t) ==
    LET provider == factory_config.default_provider IN
    /\ fac_threads[t].pc = "line40"
    /\ fac_threads' =
          [fac_threads EXCEPT ![t] =
              IF UsesCache(provider_cache, provider, EmptyDict)
              THEN [@ EXCEPT !.pc = "done", !.outcome = "returned",
                             !.returned = provider_cache[provider]]
              ELSE [@ EXCEPT !.pc = "line44"]]
    /\ UNCHANGED <<factory_config, provider_cache, instances, env_api_key, fac_call,
                   default_returned>>

\* lines 44-50: get_provider_config, the merge, _create_provider_instance
thread_builds(t) ==
    LET provider == factory_config.default_provider IN
    /\ fac_threads[t].pc = "line44"
    /\ IF factory_config.providers[provider] = <<>>
       THEN /\ fac_threads' = [fac_threads EXCEPT ![t] =
                                  [@ EXCEPT !.pc = "done", !.outcome = "raised",
                                            !.error = "ValueError"]]
            /\ UNCHANGED instances
       ELSE LET provider_config == factory_config.providers[provider][1]
                final_config == MergeDicts(provider_config.extra_config, EmptyDict)
                built == AnthropicProvider_new(provider_config.api_key,
                                               provider_config.default_model,
                                               final_config, env_api_key)
            IN  IF ~built.ok
                THEN /\ fac_threads' = [fac_threads EXCEPT ![t] =
                                           [@ EXCEPT !.pc = "done", !.outcome = "raised",
                                                     !.error = built.error]]
                     /\ UNCHANGED instances
                ELSE /\ instances' = Append(instances, built.instance)
                     /\ fac_threads' = [fac_threads EXCEPT ![t] =
                                           [@ EXCEPT !.pc = "line53",
                                                     !.instance = Len(instances) + 1]]
    /\ UNCHANGED <<factory_config, provider_cache, env_api_key, fac_call,
                   default_returned>>

\* lines 53-56: if not override_config: self._provider_cache[cache_key] = instance
\*              return instance
thread_stores(t) ==
    LET provider == factory_config.default_provider IN
    /\ fac_threads[t].pc = "line53"
    /\ provider_cache' = IF StoresInCache(EmptyDict)
                         THEN [provider_cache EXCEPT ![provider] = fac_threads[t].instance]
                         ELSE provider_cache
    /\ fac_threads' = [fac_threads EXCEPT ![t] =
                          [@ EXCEPT !.pc = "done", !.outcome = "returned",
                                    !.returned = fac_threads[t].instance]]
    /\ UNCHANGED <<factory_config, instances, env_api_key, fac_call, default_returned>>

ThreadCalls == \E t \in Threads : thread_calls(t)
ThreadChecksCache == \E t \in Threads : thread_checks_cache(t)
ThreadBuilds == \E t \in Threads : thread_builds(t)
ThreadStores == \E t \in Threads : thread_stores(t)

(***************************************************************************)
(* BOT HANDLERS AND SERVICES  (src/bot/handlers/, src/services/,           *)
(* src/db/repository.py)                                                   *)
(*                                                                         *)
(* One Telegram user in one chat.  db.user is the onboarding_status of the *)
(* user's row, "absent" when there is no row.  A handler runs from its     *)
(* first line to its return or to the first exception; the parameter f of  *)
(* a handler numbers the awaited repository / Telegram call that raises    *)
(* when the handler reaches it (0: none raises).  turn.effects lists the   *)
(* repository writes and the calls of ai_client.generate of the handler,   *)
(* in their order.  The timestamps of the rows are left out.               *)
(***************************************************************************)

\* Largest number of rows of the message table.
MaxMessages == 4

ONBOARDING_MESSAGE == <<"ONBOARDING_MESSAGE">>
NORTHSTAR_MESSAGE == <<"NORTHSTAR_MESSAGE">>
ONBOARDING_COMPLETE_MESSAGE == <<"ONBOARDING_COMPLETE_MESSAGE">>
USE_START_REPLY == <<"Please use /start to begin!">>
PENDING_REPLY == <<"Please use /start to begin your onboarding!">>
NOT_STARTED_REPLY == <<"You haven't started yet. Use /start to begin!">>
NOTHING_TO_RESET_REPLY == <<"No data found for your account. Nothing to reset.">>
RESET_REPLY == <<"All your data has been deleted. Use /start to begin fresh!">>
GOT_IT_REPLY == <<"Got it.">>

\* The text messages the user sends.
UserTexts == {<<"hi">>}

StatusSection(complete, ready) ==
    Tagged("onboarding_status",
           Tagged("complete", <<complete>>) \o Tagged("ready", <<ready>>))

ProfileSection(intentions, values, goals) ==
    Tagged("profile",
           Tagged("daily_intentions", intentions) \o Tagged("values", values)
               \o Tagged("goals", goals))

(***************************************************************************)
(* Tagged documents built from fields, in the layout the prompts ask the   *)
(* backend for (src/prompts/onboarding.py, pondering.py), and documents    *)
(* that break that layout.  They are the inputs of SpecDocs.               *)
(***************************************************************************)

\* The tag bodies that stand for a boolean.
BoolTexts(b) == IF b THEN {"true", "TRUE", "True"} ELSE {"false", "FALSE"}

ReplyTexts == {<<"Hello">>, <<"Hello", " ", "there">>}
IntentionLists == {<<>>, <<<<"run">>>>, <<<<"run">>, <<"read", " ", "more">>>>}
ValueLists == {<<>>, <<<<"health">>>>}
GoalLists == {<<>>, <<<<"marathon">>, <<"novel">>>>}

\* The items of a list, each in its tag on a line of its own.
RECURSIVE RenderItems(_, _)
RenderItems(tag, items) ==
    IF items = <<>> THEN <<>>
    ELSE <<"\n">> \o Tagged(tag, Head(items)) \o RenderItems(tag, Tail(items))

\* The onboarding fields a backend text can carry: a profile only when complete.
OnboardingFields ==
    {f \in [reply : ReplyTexts, is_complete : BOOLEAN, is_ready : BOOLEAN,
            daily_intentions : IntentionLists, values : ValueLists, goals : GoalLists] :
        ~f.is_complete =>
            f.daily_intentions = <<>> /\ f.values = <<>> /\ f.goals = <<>>}

\* The document of the onboarding fields f, the booleans written as c and r.
RenderOnboarding(f, c, r) ==
    Tagged("response", <<"\n">> \o f.reply \o <<"\n">>) \o <<"\n">>
        \o StatusSection(c, r)
        \o (IF f.is_complete
            THEN <<"\n">> \o ProfileSection(
                     RenderItems("intention", f.daily_intentions) \o <<"\n">>,
                     RenderItems("value", f.values) \o <<"\n">>,
                     RenderItems("goal", f.goals) \o <<"\n">>)
            ELSE <<>>)

OnboardingDocs ==
    {RenderOnboarding(f, c, "true") : f \in {g \in OnboardingFields : g.is_ready},
                                      c \in {"true", "TRUE", "false"}}
    \cup {RenderOnboarding(f, IF f.is_complete THEN "true" ELSE "false", "false") :
             f \in {g \in OnboardingFields : ~g.is_ready}}

\* The classification fields: a message that is not valid has the category
\* invalid and neither text; the texts of a valid one are optional.
ClassificationFields ==
    {f \in [is_valid : BOOLEAN,
            category : VALID_CATEGORIES,
            cleaned_content : {None, Some(<<>>), Some(<<"tired">>)},
            interpretation : {None, Some(<<"rest", " ", "more">>)}] :
        ~f.is_valid => /\ f.category = <<"invalid">>
                       /\ f.cleaned_content = None
                       /\ f.interpretation = None}

RenderOptional(tag, o) == IF o = None THEN <<>> ELSE <<"\n">> \o Tagged(tag, o[1])

\* The document of the classification fields f, is_valid written as v.
RenderClassification(f, v) ==
    Tagged("classification",
           <<"\n">> \o Tagged("is_valid", <<v>>) \o <<"\n">>
               \o Tagged("category", f.category) \o <<"\n">>)
        \o RenderOptional("cleaned", f.cleaned_content)
        \o RenderOptional("interpretation", f.interpretation)

ClassificationDocs ==
    {RenderClassification(f, v) : f \in {g \in ClassificationFields : g.is_valid},
                                  v \in BoolTexts(TRUE)}
    \cup {RenderClassification(f, v) : f \in {g \in ClassificationFields : ~g.is_valid},
                                       v \in BoolTexts(FALSE)}

\* The parameters of a document around a <daily_intentions> list: the items
\* before the list, in it and after it, and whether the list tag is there.
ListDocParams ==
    [before : {<<>>, <<<<"stray">>>>}, inside : IntentionLists,
     after : {<<>>, <<<<"late">>>>}, parent : BOOLEAN]

\* The items of a list, each with white space around its text.
RECURSIVE RenderPadded(_, _)
RenderPadded(tag, items) ==
    IF items = <<>> THEN <<>>
    ELSE <<"\n">> \o Tagged(tag, <<" ">> \o Head(items) \o <<"\n">>)
             \o RenderPadded(tag, Tail(items))

ListDoc(p) ==
    RenderItems("intention", p.before)
        \o (IF p.parent
            THEN Tagged("daily_intentions",
                        RenderPadded("intention", p.inside) \o <<"\n">>)
            ELSE RenderPadded("intention", p.inside))
        \o RenderItems("intention", p.after)

ListDocs == {ListDoc(p) : p \in ListDocParams}

\* Documents that break the layout: empty, without tags, an empty or blank or
\* unclosed or misordered or repeated reply wrapper, the sections in another
\* order, a status without its fields, a boolean outside its wrapper, an empty
\* or unknown boolean, unclosed sections.
MalformedDocs ==
    {<<>>, <<"Hello">>, <<" ", "Hello", "\n">>,
     Tagged("response", <<>>) \o StatusSection("false", "false"),
     Tagged("response", <<" ", "\n">>) \o StatusSection("false", "true"),
     <<OpenTag("response"), "Hello">> \o StatusSection("true", "true"),
     <<CloseTag("response"), "Hello", OpenTag("response")>>,
     Tagged("response", <<"Hello">>) \o Tagged("response", <<"there">>),
     <<"Sure", "\n">> \o Tagged("response", <<" ", "Hello", " ">>) \o <<"\n", "bye">>,
     StatusSection("true", "false") \o Tagged("response", <<"Hello">>),
     ProfileSection(Tagged("intention", <<"run">>), <<>>, <<>>)
         \o StatusSection("true", "true") \o Tagged("response", <<"Hello">>),
     Tagged("response", <<"Hello">>) \o Tagged("onboarding_status", <<>>),
     Tagged("response", <<"Hello">>)
         \o Tagged("onboarding_status", Tagged("ready", <<"true">>)),
     Tagged("response", <<"Hello">>) \o Tagged("complete", <<"true">>)
         \o Tagged("ready", <<"true">>),
     Tagged("response", <<"Hello">>)
         \o Tagged("onboarding_status", Tagged("complete", <<>>)),
     Tagged("response", <<"Hello">>)
         \o Tagged("onboarding_status", Tagged("complete", <<" ", "True", "\n">>)),
     Tagged("response", <<"Hello">>)
         \o Tagged("onboarding_status", Tagged("complete", <<"yes">>)),
     Tagged("response", <<"Hello">>)
         \o Tagged("onboarding_status", Tagged("complete", <<"true", " ", "indeed">>)),
     Tagged("response", <<"Hello">>)
         \o <<OpenTag("onboarding_status")>> \o Tagged("complete", <<"true">>),
     Tagged("response", <<"Hello">>) \o StatusSection("true", "true")
         \o <<OpenTag("profile")>> \o Tagged("goals", Tagged("goal", <<"novel">>)),
     Tagged("response", <<"Hello">>)
         \o StatusSection("false", "false"),
     Tagged("is_valid", <<"true">>) \o Tagged("category", <<"feeling">>),
     Tagged("classification", Tagged("category", <<"thought">>)),
     Tagged("classification", Tagged("is_valid", <<>>) \o Tagged("category", <<"thought">>)),
     Tagged("classification", Tagged("is_valid", <<" ", "TRUE", " ">>)
                                 \o Tagged("category", <<"Thought">>))
         \o Tagged("cleaned", <<"tired">>),
     Tagged("classification", Tagged("is_valid", <<"yes">>)),
     <<OpenTag("classification")>> \o Tagged("is_valid", <<"true">>)}

DocInit ==
    /\ parser_input \in OnboardingDocs \cup ClassificationDocs \cup ListDocs
                            \cup MalformedDocs
    /\ parsed = [kind |-> "none"]

\* extract_list(parser_input, "daily_intentions", "intention")
ExtractList ==
    /\ parsed.kind = "none"
    /\ parsed' = [kind |-> "list",
                  r |-> extract_list(parser_input, "daily_intentions", "intention")]
    /\ UNCHANGED parser_input

\* The backend texts of the onboarding turns: going on, ready, complete with
\* a profile (two different ones, one under <complete>TRUE</complete>),
\* complete without a profile, and a text without tags.
OnboardingTexts ==
    {Tagged("response", <<"Hello">>) \o StatusSection("false", "false"),
     Tagged("response", <<"Hello">>) \o StatusSection("false", "true"),
     Tagged("response", <<"Hello">>) \o StatusSection("true", "true")
         \o ProfileSection(Tagged("intention", <<"run">>) \o Tagged("intention", <<"read">>),
                           Tagged("value", <<"health">>), Tagged("goal", <<"marathon">>)),
     Tagged("response", <<"Hello">>) \o StatusSection("TRUE", "true")
         \o ProfileSection(Tagged("intention", <<"write">>), <<>>,
                           Tagged("goal", <<"novel">>)),
     Tagged("response", <<"Hello">>) \o StatusSection("true", "true"),
     <<"Hello">>}

\* The backend texts of the classification turns: a valid thought, an invalid
\* message, a valid message of an unknown category, and an empty text.
ClassificationTexts ==
    {Tagged("classification",
            Tagged("is_valid", <<"true">>) \o Tagged("category", <<"thought">>))
         \o Tagged("cleaned", <<"tired">>) \o Tagged("interpretation", <<"rest">>),
     Tagged("classification",
            Tagged("is_valid", <<"false">>) \o Tagged("category", <<"invalid">>)),
     Tagged("classification",
            Tagged("is_valid", <<"true">>) \o Tagged("category", <<"bogus">>)),
     <<>>}

\* What ai_client.generate does in a turn: it returns a response with the
\* text, or raises an error of the taxonomy.
Returned(text) == [ok |-> TRUE, text |-> text, kind |-> "none"]
Raised(kind) == [ok |-> FALSE, text |-> <<>>, kind |-> kind]
NoBackendCall == [ok |-> FALSE, text |-> <<>>, kind |-> "not called"]
BackendFailures ==
    {Raised(k) : k \in {"AIRateLimitError", "AIAuthenticationError", "AIModelNotFoundError",
                        "AIQuotaExceededError", "AIProviderError"}}

Msg(role, content) == [role |-> role, content |-> content]

\* The row UserProfileRepository.upsert writes.
ProfileOf(parsed_result) ==
    [daily_intentions |-> parsed_result.daily_intentions, values |-> parsed_result.values,
     goals |-> parsed_result.goals]

\* The row PonderingRepository.create writes.
PonderingOf(message_text, parsed_result) ==
    [raw_content |-> message_text, cleaned_content |-> parsed_result.cleaned_content,
     interpretation |-> parsed_result.interpretation, category |-> parsed_result.category,
     is_valid |-> parsed_result.is_valid]

\* category_emoji.get(pondering.category.value, "sparkles") and " Noted."
NotedReply(category) ==
    CASE category = <<"thought">> -> <<"thought-emoji Noted.">>
      [] category = <<"observation">> -> <<"observation-emoji Noted.">>
      [] category = <<"feeling">> -> <<"feeling-emoji Noted.">>
      [] OTHER -> <<"sparkles-emoji Noted.">>

\* The status of the row UserRepository.create inserts: the column's default.
DEFAULT_STATUS == "pending"

Turn(op, f, status_read, backend, is_complete, effects, reply, notified, raised) ==
    [op |-> op, f |-> f, status_read |-> status_read, backend |-> backend,
     is_complete |-> is_complete, effects |-> effects, reply |-> reply,
     notified |-> notified, raised |-> raised, sent |-> <<>>]

BotInit ==
    /\ db = [user |-> "absent", user_profile |-> None, conversation |-> FALSE,
             message |-> <<>>, pondering |-> <<>>]
    /\ turn = Turn("none", 0, "none", NoBackendCall, "n/a", <<>>, None, FALSE, FALSE)

\* A variant of StartUpdatesStatus that sets STARTED whatever the status is.
StartUpdatesStatus_Always(status) == TRUE

\* if user.onboarding_status == OnboardingStatus.PENDING   (start.py)
StartUpdatesStatus(status) == status = "pending"

\* Handler of /start.  Awaits: 1 get_by_telegram_id, 2 UserRepository.create
\* (new user), 3 get_or_create, 4 update_onboarding_status (pending user),
\* 5 reply_text, 6 MessageRepository.create.
start(f) ==
    LET new == db.user = "absent"
        user == IF new THEN DEFAULT_STATUS ELSE db.user
        db2 == IF new THEN [db EXCEPT !.user = DEFAULT_STATUS] ELSE db
        db3 == [db2 EXCEPT !.conversation = TRUE]
        upd == StartUpdatesStatus(user)
        db4 == IF upd THEN [db3 EXCEPT !.user = "started"] ELSE db3
        db6 == [db4 EXCEPT !.message = Append(@, Msg("assistant", ONBOARDING_MESSAGE))]
        e2 == IF new THEN <<"user.create">> ELSE <<>>
        e3 == e2 \o <<"conversation.get_or_create">>
        e4 == e3 \o (IF upd THEN <<"user.update_onboarding_status">> ELSE <<>>)
        e6 == e4 \o <<"message.create">>
        T(status_read, effects, reply, raised) ==
            Turn("start", f, status_read, NoBackendCall, "n/a", effects, reply,
                 FALSE, raised)
    IN
    /\ Len(db.message) + 1 <= MaxMessages
    /\ IF f = 1 \/ (f = 2 /\ new)
       THEN db' = db /\ turn' = T("none", <<>>, None, TRUE)
       ELSE IF f = 3
       THEN db' = db2 /\ turn' = T(user, e2, None, TRUE)
       ELSE IF f = 4 /\ upd
       THEN db' = db3 /\ turn' = T(user, e3, None, TRUE)
       ELSE IF f = 5
       THEN db' = db4 /\ turn' = T(user, e4, None, TRUE)
       ELSE IF f = 6
       THEN db' = db4 /\ turn' = T(user, e4, Some(ONBOARDING_MESSAGE), TRUE)
       ELSE db' = db6 /\ turn' = T(user, e6, Some(ONBOARDING_MESSAGE), FALSE)

ONBOARDING_SYSTEM_PROMPT == <<"ONBOARDING_SYSTEM_PROMPT">>

\* limit=20 of the history query of the onboarding service
HISTORY_LIMIT == 20

\* The most recent rows of a conversation, at most limit, oldest first.
MostRecent(rows, limit) ==
    IF Len(rows) <= limit THEN rows
    ELSE SubSeq(rows, Len(rows) - limit + 1, Len(rows))

\* MessageRepository.get_conversation_messages: SELECT ... ORDER BY sent_at
\* ASC LIMIT $2, the rows of the table being in the order of sent_at.
get_conversation_messages(rows, limit) ==
    IF Len(rows) <= limit THEN rows ELSE SubSeq(rows, 1, limit)

\* OnboardingPrompt.format_messages after _messages_to_prompt_history: the
\* system prompt, then role and content of each row.
format_messages(history) == <<Msg("system", ONBOARDING_SYSTEM_PROMPT)>> \o history

\* A variant of ShouldComplete that completes in every turn.
ShouldComplete_Always(is_complete) == TRUE

\* A variant of ShouldComplete that tests `is not None`.
ShouldComplete_IsNotNone(is_complete) == is_complete # "None"

\* if parsed_result.is_complete   (services/onboarding.py)
ShouldComplete(is_complete) == Truthy(is_complete)

\* A variant of complete_onboarding that updates the status first and saves
\* the profile second.
complete_onboarding_StatusFirst(d, parsed_result, f) ==
    LET d7 == [d EXCEPT !.user = "completed"]
        d8 == [d7 EXCEPT !.user_profile = Some(ProfileOf(parsed_result))]
    IN  IF f = 7 THEN [db |-> d, effects |-> <<>>, raised |-> TRUE]
        ELSE IF f = 8
        THEN [db |-> d7, effects |-> <<"user.update_onboarding_status">>, raised |-> TRUE]
        ELSE [db |-> d8, effects |-> <<"user.update_onboarding_status",
                                       "user_profile.upsert">>, raised |-> FALSE]

\* OnboardingService._complete_onboarding from the tables d.  Awaits: 7
\* UserProfileRepository.upsert, 8 UserRepository.update_onboarding_status.
complete_onboarding(d, parsed_result, f) ==
    LET d7 == [d EXCEPT !.user_profile = Some(ProfileOf(parsed_result))]
        d8 == [d7 EXCEPT !.user = "completed"]
    IN  IF f = 7 THEN [db |-> d, effects |-> <<>>, raised |-> TRUE]
        ELSE IF f = 8
        THEN [db |-> d7, effects |-> <<"user_profile.upsert">>, raised |-> TRUE]
        ELSE [db |-> d8, effects |-> <<"user_profile.upsert",
                                       "user.update_onboarding_status">>, raised |-> FALSE]

\* OnboardingService.handle_message and _complete_onboarding, from the frame
\* d of the tables.  Awaits: 3 MessageRepository.create (user), 4
\* get_conversation_messages, 5 ai_client.generate, 6 MessageRepository.create
\* (assistant), 7 UserProfileRepository.upsert, 8 update_onboarding_status.
\* The parsed_result: the tables, the effects, the text returned, and whether an
\* exception left the service, and the messages passed to generate.
service_steps(d, message_text, outcome, parsed_result, f) ==
    LET d3 == [d EXCEPT !.message = Append(@, Msg("user", message_text))]
        d6 == [d3 EXCEPT !.message = Append(@, Msg("assistant", parsed_result.response_text))]
        completes == ShouldComplete(parsed_result.is_complete)
        c == complete_onboarding(d6, parsed_result, f)
        ai_messages == format_messages(get_conversation_messages(d3.message, HISTORY_LIMIT))
        R(dd, effects, is_complete, called, raised) ==
            [db |-> dd, effects |-> effects, is_complete |-> is_complete,
             backend |-> IF called THEN outcome ELSE NoBackendCall,
             sent |-> IF called THEN ai_messages ELSE <<>>,
             response_text |-> parsed_result.response_text, raised |-> raised]
    IN  IF f = 3 THEN R(d, <<>>, "n/a", FALSE, TRUE)
        ELSE IF f = 4 THEN R(d3, <<"message.create">>, "n/a", FALSE, TRUE)
        ELSE IF ~outcome.ok
        THEN R(d3, <<"message.create", "ai_client.generate">>, "n/a", TRUE, TRUE)
        ELSE IF f = 6
        THEN R(d3, <<"message.create", "ai_client.generate">>,
               parsed_result.is_complete, TRUE, TRUE)
        ELSE IF ~completes
        THEN R(d6, <<"message.create", "ai_client.generate", "message.create">>, parsed_result.is_complete, TRUE, FALSE)
        ELSE R(c.db, <<"message.create", "ai_client.generate", "message.create">> \o c.effects,
               parsed_result.is_complete, TRUE, c.raised)

\* result = OnboardingResult.parse(response.content), where the service
\* gets that far.
service_handle_message(d, message_text, outcome, f) ==
    service_steps(d, message_text, outcome, OnboardingResult_parse(outcome.text), f)

\* A variant of JustCompleted without the comparison with COMPLETED.
JustCompleted_AnyStatus(was_started, updated_user) ==
    was_started /\ updated_user # "absent"

\* if was_started and updated_user and
\*    updated_user.onboarding_status == OnboardingStatus.COMPLETED
JustCompleted(was_started, updated_user) ==
    was_started /\ updated_user # "absent" /\ updated_user = "completed"

\* A variant of onboarding_reply that catches the service's exception and
\* tells the user.
onboarding_reply_CatchesError(user, e0, r, f) ==
    /\ db' = [r.db EXCEPT !.message =
                 IF r.raised THEN Append(@, Msg("assistant", <<"error">>)) ELSE @]
    /\ turn' = [Turn("message", f, user, r.backend, r.is_complete, e0 \o r.effects,
                      IF r.raised THEN Some(<<"error">>) ELSE Some(r.response_text),
                      FALSE, FALSE) EXCEPT !.sent = r.sent]

\* _handle_onboarding_message after the service returned or raised r.
\* Awaits: 9 get_by_telegram_id, 10 reply_text.
onboarding_reply(user, e0, r, f) ==
    LET was_started == user = "started"
        notify == JustCompleted(was_started, r.db.user)
        response_text == IF notify THEN r.response_text \o ONBOARDING_COMPLETE_MESSAGE
                         ELSE r.response_text
        T(reply, notified, raised) ==
            [Turn("message", f, user, r.backend, r.is_complete, e0 \o r.effects, reply,
                  notified, raised) EXCEPT !.sent = r.sent]
    IN  /\ db' = r.db
        /\ turn' = IF r.raised \/ f = 9 THEN T(None, FALSE, TRUE)
                   ELSE IF f = 10 THEN T(None, FALSE, TRUE)
                   ELSE T(Some(response_text), notify, FALSE)

\* _handle_onboarding_message
handle_onboarding_message(d, user, e0, message_text, outcome, f) ==
    onboarding_reply(user, e0, service_handle_message(d, message_text, outcome, f), f)

\* class PonderingCategory(str, Enum)   (db/models.py)
PonderingCategoryValues ==
    {<<"thought">>, <<"observation">>, <<"feeling">>, <<"invalid">>}

\* PonderingCategory(value): the member with that value, None for the
\* ValueError a value of no member raises.
PonderingCategory(value) ==
    IF value \in PonderingCategoryValues THEN Some(value) ELSE None

\* What process_message gives for a parsed result: the stored pondering, or
\* the ValueError of the conversion of its category.
StoredOrValueError(message_text, parsed_result) ==
    IF PonderingCategory(parsed_result.category) = None
    THEN <<[error |-> "ValueError"]>>
    ELSE <<PonderingOf(message_text, parsed_result)>>

\* A variant of process_message without the try / except around generate's
\* result: it classifies and stores whatever came back.
process_message_NoExcept(message_text, outcome) ==
    <<PonderingOf(message_text, PonderingResult_parse(outcome.text))>>

\* PonderingService.process_message: the pondering stored, <<>> for None, or
\* the exception that left it.
\* Awaits: 4 ai_client.generate, 5 PonderingRepository.create.
process_message(message_text, outcome) ==
    IF ~outcome.ok THEN <<>>
    ELSE StoredOrValueError(message_text, PonderingResult_parse(outcome.text))

\* _handle_pondering_message, with the pondering process_message gives.
\* Awaits: 3 MessageRepository.create (user), 4 and 5 in process_message,
\* 6 reply_text, 7 MessageRepository.create.
pondering_steps(d, user, e0, message_text, outcome, pondering, f) ==
    LET d3 == [d EXCEPT !.message = Append(@, Msg("user", message_text))]
        d5 == [d3 EXCEPT !.pondering = @ \o pondering]
        response == IF pondering # <<>> /\ Truthy(pondering[1].is_valid)
                    THEN NotedReply(pondering[1].category) ELSE GOT_IT_REPLY
        d7 == [d5 EXCEPT !.message = Append(@, Msg("assistant", response))]
        e3 == e0 \o <<"message.create">>
        e4 == e3 \o <<"ai_client.generate">>
        e5 == e4 \o (IF pondering # <<>> THEN <<"pondering.create">> ELSE <<>>)
        e7 == e5 \o <<"message.create">>
        T(backend, effects, reply, raised) ==
            Turn("message", f, user, backend, "n/a", effects, reply, FALSE, raised)
    IN  IF f = 3 THEN db' = d /\ turn' = T(NoBackendCall, e0, None, TRUE)
        ELSE IF pondering # <<>> /\ "error" \in DOMAIN pondering[1]
        THEN db' = d3 /\ turn' = T(outcome, e4, None, TRUE)
        ELSE IF f = 5 /\ outcome.ok
        THEN db' = d3 /\ turn' = T(outcome, e4, None, TRUE)
        ELSE IF f = 6 THEN db' = d5 /\ turn' = T(outcome, e5, None, TRUE)
        ELSE IF f = 7 THEN db' = d5 /\ turn' = T(outcome, e5, Some(response), TRUE)
        ELSE db' = d7 /\ turn' = T(outcome, e7, Some(response), FALSE)

\* _handle_pondering_message
handle_pondering_message(d, user, e0, message_text, outcome, f) ==
    pondering_steps(d, user, e0, message_text, outcome,
                    process_message(message_text, outcome), f)

\* A variant of RoutesToOnboarding that takes every status but COMPLETED.
RoutesToOnboarding_NotCompleted(status) == status # "completed"

\* if user.onboarding_status == OnboardingStatus.STARTED   (handlers/onboarding.py)
RoutesToOnboarding(status) == status = "started"

\* elif user.onboarding_status == OnboardingStatus.COMPLETED
RoutesToPondering(status) == status = "completed"

\* Handler of a text message.  Awaits: 1 get_by_telegram_id, 2 get_or_create
\* (reply_text for a user without a row), then those of the branch taken.
handle_message(message_text, outcome, f) ==
    LET user == db.user
        d2 == [db EXCEPT !.conversation = TRUE]
        e2 == <<"conversation.get_or_create">>
        T(status_read, effects, reply, raised) ==
            Turn("message", f, status_read, NoBackendCall, "n/a", effects, reply,
                 FALSE, raised)
    IN
    /\ IF f = 1 THEN db' = db /\ turn' = T("none", <<>>, None, TRUE)
       ELSE IF user = "absent"
       THEN /\ db' = db
            /\ turn' = IF f = 2 THEN T("none", <<>>, None, TRUE)
                       ELSE T("none", <<>>, Some(USE_START_REPLY), FALSE)
       ELSE IF f = 2 THEN db' = db /\ turn' = T(user, <<>>, None, TRUE)
       ELSE IF RoutesToOnboarding(user)
       THEN handle_onboarding_message(d2, user, e2, message_text, outcome, f)
       ELSE IF RoutesToPondering(user)
       THEN handle_pondering_message(d2, user, e2, message_text, outcome, f)
       ELSE /\ db' = d2
            /\ turn' = IF f = 3 THEN T(user, e2, None, TRUE)
                       ELSE T(user, e2, Some(PENDING_REPLY), FALSE)

\* Handler of /northstar.  Awaits: 1 get_by_telegram_id, 2
\* update_onboarding_status (reply_text for a user without a row), 3
\* get_or_create, 4 reply_text, 5 MessageRepository.create.
northstar(f) ==
    LET user == db.user
        d2 == [db EXCEPT !.user = "started"]
        d3 == [d2 EXCEPT !.conversation = TRUE]
        d5 == [d3 EXCEPT !.message = Append(@, Msg("assistant", NORTHSTAR_MESSAGE))]
        T(status_read, effects, reply, raised) ==
            Turn("northstar", f, status_read, NoBackendCall, "n/a", effects, reply,
                 FALSE, raised)
    IN
    /\ Len(db.message) + 1 <= MaxMessages
    /\ IF f = 1 THEN db' = db /\ turn' = T("none", <<>>, None, TRUE)
       ELSE IF user = "absent"
       THEN /\ db' = db
            /\ turn' = IF f = 2 THEN T("none", <<>>, None, TRUE)
                       ELSE T("none", <<>>, Some(NOT_STARTED_REPLY), FALSE)
       ELSE IF f = 2 THEN db' = db /\ turn' = T(user, <<>>, None, TRUE)
       ELSE IF f = 3
       THEN db' = d2 /\ turn' = T(user, <<"user.update_onboarding_status">>, None, TRUE)
       ELSE IF f = 4
       THEN /\ db' = d3
            /\ turn' = T(user, <<"user.update_onboarding_status",
                                 "conversation.get_or_create">>, None, TRUE)
       ELSE IF f = 5
       THEN /\ db' = d3
            /\ turn' = T(user, <<"user.update_onboarding_status",
                                 "conversation.get_or_create">>,
                         Some(NORTHSTAR_MESSAGE), TRUE)
       ELSE /\ db' = d5
            /\ turn' = T(user, <<"user.update_onboarding_status",
                                 "conversation.get_or_create", "message.create">>,
                         Some(NORTHSTAR_MESSAGE), FALSE)

\* A variant of reset whose deletion leaves the ponderings in their table.
reset_LeavesPonderings(f) ==
    LET user == db.user
        d2 == [user |-> "absent", user_profile |-> None, conversation |-> FALSE,
               message |-> <<>>, pondering |-> db.pondering]
        T(status_read, effects, reply, raised) ==
            Turn("reset", f, status_read, NoBackendCall, "n/a", effects, reply,
                 FALSE, raised)
    IN  IF f = 1 THEN db' = db /\ turn' = T("none", <<>>, None, TRUE)
        ELSE IF user = "absent"
        THEN /\ db' = db
             /\ turn' = IF f = 2 THEN T("none", <<>>, None, TRUE)
                        ELSE T("none", <<>>, Some(NOTHING_TO_RESET_REPLY), FALSE)
        ELSE IF f = 2 THEN db' = db /\ turn' = T(user, <<>>, None, TRUE)
        ELSE IF f = 3
        THEN db' = d2 /\ turn' = T(user, <<"user.delete_all_data">>, None, TRUE)
        ELSE db' = d2 /\ turn' = T(user, <<"user.delete_all_data">>, Some(RESET_REPLY), FALSE)

\* Handler of /reset.  Awaits: 1 get_by_telegram_id, 2 delete_all_data (one
\* transaction; reply_text for a user without a row), 3 reply_text.
reset(f) ==
    LET user == db.user
        d2 == [user |-> "absent", user_profile |-> None, conversation |-> FALSE,
               message |-> <<>>, pondering |-> <<>>]
        T(status_read, effects, reply, raised) ==
            Turn("reset", f, status_read, NoBackendCall, "n/a", effects, reply,
                 FALSE, raised)
    IN  IF f = 1 THEN db' = db /\ turn' = T("none", <<>>, None, TRUE)
        ELSE IF user = "absent"
        THEN /\ db' = db
             /\ turn' = IF f = 2 THEN T("none", <<>>, None, TRUE)
                        ELSE T("none", <<>>, Some(NOTHING_TO_RESET_REPLY), FALSE)
        ELSE IF f = 2 THEN db' = db /\ turn' = T(user, <<>>, None, TRUE)
        ELSE IF f = 3
        THEN db' = d2 /\ turn' = T(user, <<"user.delete_all_data">>, None, TRUE)
        ELSE db' = d2 /\ turn' = T(user, <<"user.delete_all_data">>, Some(RESET_REPLY), FALSE)

Start == \E f \in 0 .. 6 : start(f)

HandleMessage ==
    \E t \in UserTexts, f \in 0 .. 10,
       o \in {Returned(x) : x \in OnboardingTexts \cup ClassificationTexts}
             \cup BackendFailures :
        /\ Len(db.message) + 2 <= MaxMessages
        /\ handle_message(t, o, f)

Northstar == \E f \in 0 .. 5 : northstar(f)

\* Largest number of rows of a conversation under way.
MaxHistory == 21

\* The rows of a conversation under way: the bot's greeting, then the user's
\* and the bot's turns, each with its own text.
HistoryRows(n) ==
    [i \in 1 .. n |-> Msg(IF i % 2 = 1 THEN "assistant" ELSE "user",
                          <<"stored", ToString(i)>>)]

\* A user in onboarding whose conversation has any number of rows.
HistoryInit ==
    /\ db \in {[user |-> "started", user_profile |-> None, conversation |-> TRUE,
                message |-> HistoryRows(n), pondering |-> <<>>] : n \in 0 .. MaxHistory}
    /\ turn = Turn("none", 0, "none", NoBackendCall, "n/a", <<>>, None, FALSE, FALSE)

\* The next text message of that user.
LongConversationMessage ==
    \E t \in UserTexts, f \in 0 .. 10,
       o \in {Returned(x) : x \in OnboardingTexts} \cup BackendFailures :
        /\ turn.op = "none"
        /\ handle_message(t, o, f)

Reset == \E f \in 0 .. 3 : reset(f)

ServiceReturns(r, f) ==
    /\ db' = r.db
    /\ turn' = [Turn("service", f, db.user, r.backend, r.is_complete, r.effects,
                     None, FALSE, r.raised) EXCEPT !.sent = r.sent]

\* OnboardingService.handle_message(user, conversation, message_text) called
\* for a user and a conversation that are in the tables, whatever the status.
ServiceHandleMessage ==
    \E t \in UserTexts, f \in {0} \cup 3 .. 8,
       o \in {Returned(x) : x \in OnboardingTexts} \cup BackendFailures :
        /\ db.user # "absent"
        /\ db.conversation
        /\ Len(db.message) + 2 <= MaxMessages
        /\ ServiceReturns(service_handle_message(db, t, o, f), f)

(***************************************************************************)
(* SPECIFICATIONS, one per component                                       *)
(***************************************************************************)
\* The variables a component leaves alone.
notRetryVars == <<parseVars, adapterVars, factoryVars, botVars>>
notParseVars == <<retryVars, adapterVars, factoryVars, botVars>>
notAdapterVars == <<retryVars, parseVars, factoryVars, botVars>>
notFactoryVars == <<retryVars, parseVars, adapterVars, botVars>>
notBotVars == <<retryVars, parseVars, adapterVars, factoryVars>>

RetryNext ==
    \/ RetryEnter /\ UNCHANGED notRetryVars
    \/ RetryReturns /\ UNCHANGED notRetryVars
    \/ RetryCatches /\ UNCHANGED notRetryVars
    \/ RetryWakes /\ UNCHANGED notRetryVars
    \/ RetryCancelled /\ UNCHANGED notRetryVars

InitRetry == BotInit /\ RetryInit /\ PairIdle /\ ParseIdle /\ AdapterInit /\ FactoryIdle

SpecRetry == InitRetry /\ [][RetryNext]_vars

\* Each call of func terminates and each sleep returns.
SpecRetryFair ==
    /\ SpecRetry
    /\ WF_vars((RetryReturns \/ RetryCatches) /\ UNCHANGED notRetryVars)
    /\ WF_vars(RetryWakes /\ UNCHANGED notRetryVars)

\* The callers of one decorated function, scheduled in any order.
PairNext ==
    \/ PairEnter /\ UNCHANGED notRetryVars
    \/ PairReturns /\ UNCHANGED notRetryVars
    \/ PairCatches /\ UNCHANGED notRetryVars
    \/ PairWakes /\ UNCHANGED notRetryVars

InitPair == BotInit /\ RetryInit /\ PairInit /\ ParseIdle /\ AdapterInit /\ FactoryIdle

SpecPair == InitPair /\ [][PairNext]_vars

ParseNext ==
    \/ ParsePondering /\ UNCHANGED notParseVars
    \/ ParseOnboarding /\ UNCHANGED notParseVars

InitParse == BotInit /\ RetryInit /\ PairIdle /\ ParseInit /\ AdapterInit /\ FactoryIdle

SpecParse == InitParse /\ [][ParseNext]_vars

\* The parsers and extract_list applied to the tagged documents.
DocNext ==
    \/ ParsePondering /\ UNCHANGED notParseVars
    \/ ParseOnboarding /\ UNCHANGED notParseVars
    \/ ExtractList /\ UNCHANGED notParseVars

InitDocs == BotInit /\ RetryInit /\ PairIdle /\ DocInit /\ AdapterInit /\ FactoryIdle

SpecDocs == InitDocs /\ [][DocNext]_vars

AdapterNext ==
    \/ Generate /\ UNCHANGED notAdapterVars
    \/ GenerateSync /\ UNCHANGED notAdapterVars

InitAdapter == BotInit /\ RetryInit /\ PairIdle /\ ParseIdle /\ AdapterInit /\ FactoryIdle

SpecAdapter == InitAdapter /\ [][AdapterNext]_vars

FactoryNext ==
    \/ CreateProvider /\ UNCHANGED notFactoryVars
    \/ GetDefaultProvider /\ UNCHANGED notFactoryVars
    \/ ClearCache /\ UNCHANGED notFactoryVars

InitFactory == BotInit /\ RetryInit /\ PairIdle /\ ParseIdle /\ AdapterInit /\ FactoryInit

SpecFactory == InitFactory /\ [][FactoryNext]_vars

\* The threads of a process that share one factory, scheduled preemptively.
ThreadNext ==
    \/ ThreadCalls /\ UNCHANGED notFactoryVars
    \/ ThreadChecksCache /\ UNCHANGED notFactoryVars
    \/ ThreadBuilds /\ UNCHANGED notFactoryVars
    \/ ThreadStores /\ UNCHANGED notFactoryVars

SpecThreads == InitFactory /\ [][ThreadNext]_vars

\* The callers of the convenience path, in a process whose environment is fixed.
QuickNext ==
    \/ CreateQuick /\ UNCHANGED notFactoryVars

SpecQuick == InitFactory /\ [][QuickNext]_vars

\* The updates of the bot, handled one at a time (the Application is built
\* without concurrent_updates).
BotNext ==
    \/ Start /\ UNCHANGED notBotVars
    \/ HandleMessage /\ UNCHANGED notBotVars
    \/ Northstar /\ UNCHANGED notBotVars
    \/ Reset /\ UNCHANGED notBotVars

InitBot == BotInit /\ RetryInit /\ PairIdle /\ ParseIdle /\ AdapterInit /\ FactoryIdle

SpecBot == InitBot /\ [][BotNext]_vars

\* One more text message in a conversation under way.
HistoryNext ==
    \/ LongConversationMessage /\ UNCHANGED notBotVars

InitHistory == HistoryInit /\ RetryInit /\ PairIdle /\ ParseIdle /\ AdapterInit /\ FactoryIdle

SpecHistory == InitHistory /\ [][HistoryNext]_vars

\* The bot's updates, and calls of OnboardingService.handle_message made
\* directly, as a test of the service or another caller makes them.
ServiceNext ==
    \/ BotNext
    \/ ServiceHandleMessage /\ UNCHANGED notBotVars

SpecService == InitBot /\ [][ServiceNext]_vars

(***************************************************************************)
(* PROPERTIES OF THE RETRY POLICY                                          *)
(***************************************************************************)
RetryDone == rpc \in {"returned", "raised"}

\* The call of attempt i (1-based position in calls) failed with a retryable error.
FailedRetryably(i) == ~calls[i].ok /\ calls[i].kind \in RetryableKinds

\* C1: with max_retries = r, an invocation whose calls fail retryably k <= r
\* times and then succeed returns that success value after exactly k delays; an
\* invocation is given up with a retryable error only after r + 1 calls failed
\* retryably in a row, and then raises the very exception object of the last call
\* (an invocation cancelled during a delay, C16, ends with the cancellation).
C1_RetryThenSucceedOrReraise ==
    RetryDone =>
        LET n == Len(calls) IN
        /\ n >= 1
        /\ \A i \in 1 .. n - 1 : FailedRetryably(i)
        /\ calls[n].ok =>
              /\ n - 1 <= max_retries
              /\ rpc = "returned"
              /\ result = calls[n]
              /\ Len(delays) = n - 1
        /\ (FailedRetryably(n) /\ result.kind \notin CancelKinds) =>
              /\ n = max_retries + 1
              /\ rpc = "raised"
              /\ result = calls[n]
              /\ result = Exc(calls[n].kind, max_retries)

\* C1 witness: the rate limit is signalled twice, then the call succeeds, with
\* max_retries = 3: the success value is returned after two delays.
C1_Witness ==
    /\ rpc = "returned"
    /\ max_retries = 3
    /\ Len(calls) = 3
    /\ calls[1].kind = "AIRateLimitError"
    /\ calls[2].kind = "AIRateLimitError"
    /\ result = Ret("resp_a")
    /\ Len(delays) = 2

\* The safety part of C2.
C2_AttemptBound ==
    /\ Len(calls) <= max_retries + 1
    /\ rpc = "calling" => attempt = Len(calls)
    /\ rpc = "sleeping" => /\ attempt + 1 = Len(calls)
                           /\ attempt < max_retries
    /\ Len(delays) <= max_retries
    /\ Len(calls) = max_retries + 1 => Len(delays) = max_retries
    /\ \A i \in 1 .. Len(calls) : ~calls[i].ok => calls[i].id = i - 1

\* C2: an invocation with max_retries = r >= 0 calls the operation at most r + 1
\* times, numbers its attempts from 0, takes no delay after the failure of
\* attempt r, and terminates (returns or raises) when every call and every sleep
\* terminates.
C2_BoundedAttemptsAndTermination ==
    /\ []C2_AttemptBound
    /\ (rpc = "calling") ~> RetryDone

\* C2 witness: all r + 1 = 3 attempts were made and failed; two delays were taken.
C2_Witness ==
    /\ rpc = "raised"
    /\ max_retries = 2
    /\ Len(calls) = 3
    /\ Len(delays) = 2
    /\ attempt = 2

\* C3: a call that fails with an error that is not retryable is the last call of
\* the invocation: the error is raised at once, as it is, with no delay after it,
\* whatever max_retries is and however many retryable failures came before.
C3_FatalErrorRaisedAtOnce ==
    \A i \in 1 .. Len(calls) :
        (~calls[i].ok /\ calls[i].kind \notin RetryableKinds) =>
            /\ i = Len(calls)
            /\ rpc = "raised"
            /\ result = calls[i]
            /\ Len(delays) = i - 1
            /\ (i = 1 => delays = <<>>)

\* C3 witness: an authentication failure after two retryable failures, with
\* retries left.
C3_Witness ==
    /\ rpc = "raised"
    /\ max_retries = 3
    /\ Len(calls) = 3
    /\ calls[3].kind = "AIAuthenticationError"
    /\ Len(delays) = 2

(***************************************************************************)
(* PROPERTIES OF THE PARSERS                                               *)
(***************************************************************************)

\* C8: whatever the backend text, a result of PonderingResult.parse whose
\* is_valid is not true (False, or the falsy None / "" the code can leave there)
\* has category "invalid" and neither cleaned_content nor interpretation.
C8_InvalidForcesDefaults ==
    (parsed.kind = "pondering" /\ parsed.r.is_valid # "True") =>
        /\ parsed.r.category = <<"invalid">>
        /\ parsed.r.cleaned_content = None
        /\ parsed.r.interpretation = None

\* C8 witness: a text that says is_valid false, category feeling, and carries a
\* cleaned text and an interpretation, has been parsed.
C8_Witness ==
    /\ parsed.kind = "pondering"
    /\ parsed.r.is_valid = "False"
    /\ extract_tag(parser_input, "category") = Some(<<"feeling">>)
    /\ extract_tag(parser_input, "cleaned") = Some(<<"tired">>)
    /\ extract_tag(parser_input, "interpretation") = Some(<<"rest">>)

(***************************************************************************)
(* PROPERTIES OF THE PROVIDER ADAPTER                                      *)
(***************************************************************************)
Taxonomy == {"AIRateLimitError", "AIAuthenticationError", "AIModelNotFoundError",
             "AIQuotaExceededError", "AIProviderError"}

\* The exception texts of the model that reference the model.
TextsNamingModel == {<<"Model", "not", "found">>, <<"model", "gone">>,
                     <<"models", "endpoint", "missing">>}

\* The exception texts of the model with quota or limit wording.
TextsNamingQuota == {<<"Quota", "exceeded">>, <<"rate", "LIMIT", "reached">>,
                     <<"unlimited", "plan", "required">>}

\* The message names the requested model and lists the supported models.
NamesModelAndSupported(message, model) ==
    /\ \E i \in 1 .. Len(message) : message[i] = model
    /\ \E i \in 0 .. Len(message) - Len(available_models) :
          SubSeq(message, i + 1, i + Len(available_models)) = available_models

\* C9: generate turns every failure of the backend call into one error of the
\* taxonomy, fixed by the failure alone: rate limit -> AIRateLimitError;
\* authentication -> AIAuthenticationError; not found with a text that references
\* the model -> AIModelNotFoundError whose message names the requested model and
\* the supported list; any other not found -> AIProviderError; any other API
\* failure (bad requests, which C10 covers, aside) -> AIProviderError; any other
\* exception -> AIProviderError; the original error is always kept.
C9_GenerateErrorMapping ==
    (gen_call.path = "generate" /\ ~gen_call.backend.ok) =>
        LET e == gen_call.backend.exc
            err == gen_result.error
            requested == IF gen_call.model = "" THEN default_model ELSE gen_call.model
        IN  /\ gen_result.status = "raised"
            /\ err.kind \in Taxonomy
            /\ err.original_error = e
            /\ err.provider = "anthropic"
            /\ e.cls = "RateLimitError" => err.kind = "AIRateLimitError"
            /\ e.cls = "AuthenticationError" => err.kind = "AIAuthenticationError"
            /\ (e.cls = "NotFoundError" /\ e.text \in TextsNamingModel) =>
                  /\ err.kind = "AIModelNotFoundError"
                  /\ NamesModelAndSupported(err.message, requested)
            /\ (e.cls = "NotFoundError" /\ e.text \notin TextsNamingModel) =>
                  err.kind = "AIProviderError"
            /\ e.cls \notin {"RateLimitError", "AuthenticationError", "NotFoundError",
                             "BadRequestError"} => err.kind = "AIProviderError"

\* C9 witness: a not-found failure that references the model, for a call that
\* asked for an unknown model, has been translated.
C9_Witness ==
    /\ gen_call.path = "generate"
    /\ ~gen_call.backend.ok
    /\ gen_call.backend.exc.cls = "NotFoundError"
    /\ gen_call.backend.exc.text = <<"Model", "not", "found">>
    /\ gen_call.model = "claude-9"
    /\ gen_result.error.kind = "AIModelNotFoundError"

\* C10: on either path, generate or generate_sync, a bad-request failure of the
\* backend call becomes AIQuotaExceededError when its text has quota or limit
\* wording, whatever the case, and AIProviderError otherwise.
C10_BadRequestMapping ==
    (gen_call.path # "none" /\ ~gen_call.backend.ok
        /\ gen_call.backend.exc.cls = "BadRequestError") =>
        /\ gen_result.status = "raised"
        /\ gen_result.error.kind =
              IF gen_call.backend.exc.text \in TextsNamingQuota
              THEN "AIQuotaExceededError" ELSE "AIProviderError"

\* The part of C10 that the code meets: the mapping on the generate path.
C10_GenerateOnly ==
    gen_call.path = "generate" => C10_BadRequestMapping

(***************************************************************************)
(* PROPERTIES OF THE FACTORY                                               *)
(***************************************************************************)
CreatedProvider(c) == c.op \in {"create_provider", "get_default_provider"}

KindOf(c) == IF c.provider_type # "" THEN c.provider_type
             ELSE factory_config.default_provider

CachedInstances(cache) == {cache[t] : t \in ProviderTypes} \ {0}

\* C7: a create_provider() without overrides returns the instance that the
\* previous such call for the same kind returned, when no clear_cache() came
\* between them (the configuration never changes), whatever the cache held
\* before and whatever calls with overrides came between; and a create_provider
\* call with overrides leaves the cache as it was and, when it returns, returns
\* a newly built instance, none of the cached ones.
C7_FactoryIdentity ==
    [][ CreatedProvider(fac_call') =>
          /\ (/\ DOMAIN fac_call'.override_config = {}
              /\ fac_call'.outcome = "returned"
              /\ default_returned[KindOf(fac_call')] # 0)
                => fac_call'.instance = default_returned[KindOf(fac_call')]
          /\ DOMAIN fac_call'.override_config # {} =>
                /\ provider_cache' = provider_cache
                /\ fac_call'.outcome = "returned" =>
                      /\ fac_call'.instance \notin CachedInstances(provider_cache)
                      /\ fac_call'.instance = Len(instances) + 1
                      /\ Len(instances') = Len(instances) + 1
      ]_vars

\* C7 witness: with an instance cached, a call with overrides built the second
\* instance, and then a call without overrides returned the first again.
C7_Witness ==
    /\ Len(instances) = 2
    /\ provider_cache["anthropic"] = 1
    /\ default_returned["anthropic"] = 1
    /\ fac_call.op = "create_provider"
    /\ DOMAIN fac_call.override_config = {}
    /\ fac_call.instance = 1

(***************************************************************************)
(* CLAIMS about the onboarding status (C4, C5, C6)                         *)
(***************************************************************************)

Rank(status) ==
    CASE status = "pending" -> 1 [] status = "started" -> 2 [] status = "completed" -> 3

Performed(effect) == \E i \in 1 .. Len(turn'.effects) : turn'.effects[i] = effect

\* The status of the user's row as the handler of the step holds it before its
\* own status update: the stored one, or the default of the row it creates.
StatusBefore == IF db.user = "absent" THEN DEFAULT_STATUS ELSE db.user

\* The step is an update that leaves the user with a row.
OnExistingUser == db.user # "absent" /\ db'.user # "absent"

\* C4 as stated: across /start, text messages and /northstar on an existing
\* user the onboarding status only moves forward along pending -> started ->
\* completed.
C4_StatusNeverRegresses ==
    [][(OnExistingUser /\ turn'.op \in {"start", "message", "northstar"})
           => Rank(db'.user) >= Rank(db.user)]_vars

\* C4, amended: across /start and text messages on an existing user the
\* status only moves forward; /northstar sets it to started whatever it was
\* (also from completed), where its update_onboarding_status is performed,
\* and leaves it alone otherwise.
C4_MonotonicButNorthstar ==
    [][OnExistingUser =>
           CASE turn'.op \in {"start", "message"} -> Rank(db'.user) >= Rank(db.user)
             [] turn'.op = "northstar" ->
                    db'.user = IF Performed("user.update_onboarding_status")
                               THEN "started" ELSE db.user
             [] OTHER -> TRUE]_vars

\* /northstar has taken a completed user back to started.
C4_Witness ==
    /\ turn.op = "northstar"
    /\ turn.status_read = "completed"
    /\ db.user = "started"
    /\ db.user_profile # None

\* C5 as stated: the status becomes started only when it was pending, and
\* completed only when it was started and only in a turn whose parsed backend
\* output has is_complete = true.
C5_TransitionsAsStated ==
    [][(db'.user # "absent" /\ db'.user # StatusBefore) =>
           /\ db'.user = "started" => StatusBefore = "pending"
           /\ db'.user = "completed" =>
                  StatusBefore = "started" /\ turn'.is_complete = "True"]_vars

\* C5, amended: through the handlers, the status becomes started from pending
\* in /start, or from any status in /northstar; it becomes completed only from
\* started and only in a text-message turn whose parsed backend output has
\* is_complete = True; it never becomes pending again.
C5_TransitionsButNorthstar ==
    [][(db'.user # "absent" /\ db'.user # StatusBefore) =>
           /\ db'.user # "pending"
           /\ db'.user = "started" =>
                  \/ turn'.op = "start" /\ StatusBefore = "pending"
                  \/ turn'.op = "northstar"
           /\ db'.user = "completed" =>
                  /\ turn'.op = "message"
                  /\ StatusBefore = "started"
                  /\ turn'.backend.ok
                  /\ turn'.is_complete = "True"]_vars

\* A text-message turn has completed the onboarding of a started user, on a
\* backend text whose <complete> is TRUE in upper case.
C5_Witness ==
    /\ turn.op = "message"
    /\ turn.status_read = "started"
    /\ turn.is_complete = "True"
    /\ turn.backend.ok
    /\ \E i \in 1 .. Len(turn.backend.text) : turn.backend.text[i] = "TRUE"
    /\ db.user = "completed"
    /\ turn.notified

\* C6: once the status is completed, a second completing turn (parsed
\* is_complete = True, right after a completing turn, at the service or at
\* the handler, no repository call failing) is a no-op: the stored profile
\* and the status are unchanged, no profile write, status update or
\* completion notification is produced, and no error is raised.
C6_SecondCompletionIsNoOp ==
    [][(/\ db.user = "completed"
        /\ turn.is_complete = "True"
        /\ turn'.op \in {"service", "message"}
        /\ turn'.is_complete = "True"
        /\ turn'.f = 0) =>
           /\ db'.user_profile = db.user_profile
           /\ db'.user = db.user
           /\ ~Performed("user_profile.upsert")
           /\ ~Performed("user.update_onboarding_status")
           /\ ~turn'.notified
           /\ ~turn'.raised]_vars

\* C6 at the handler alone: a text message of a completed user never reaches
\* the onboarding service, so no turn of a completed user completes anything.
C6_HandlerNeverCompletesTwice ==
    [][(db.user = "completed" /\ turn'.op = "message") =>
           /\ turn'.is_complete = "n/a"
           /\ db'.user_profile = db.user_profile
           /\ db'.user = db.user
           /\ ~turn'.notified]_vars

(***************************************************************************)
(* CLAIMS about the two paths of the adapter and its request (C11 - C13)   *)
(***************************************************************************)

\* C11: generate_sync is a twin of generate: for the request and the backend
\* outcome of a call, the result is the one both paths give -- on success the
\* same content, model and usage, on failure the error kind that the except
\* chain of generate and that of generate_sync both select.
C11_SyncIsTwinOfGenerate ==
    gen_call.path # "none" =>
        IF gen_call.backend.ok
        THEN /\ gen_result.status = "returned"
             /\ gen_result.response = AIResponseOf(gen_call.backend.resp)
        ELSE /\ gen_result.status = "raised"
             /\ gen_result.error.kind =
                    TranslateError(gen_call.backend.exc, ResolveModel(gen_call.model)).kind
             /\ gen_result.error.kind =
                    TranslateErrorSync(gen_call.backend.exc, ResolveModel(gen_call.model)).kind

\* The first system-role message of a list: its index, 0 when there is none.
FirstSystem(messages) ==
    IF \E i \in 1 .. Len(messages) : messages[i].role = "system"
    THEN CHOOSE i \in 1 .. Len(messages) :
             /\ messages[i].role = "system"
             /\ \A j \in 1 .. i - 1 : messages[j].role # "system"
    ELSE 0

\* A list without its element i.
Without(messages, i) == SubSeq(messages, 1, i - 1) \o SubSeq(messages, i + 1, Len(messages))

\* C12: for a request of well-formed messages, the params of the backend call
\* carry the content of the first system-role message of the request as the
\* system field and all other messages, in their order, as the turn list;
\* without a system message the turn list is the request's list and no system
\* field is sent.
C12_FirstSystemMessageLifted ==
    (gen_call.path # "none" /\ validate_messages(gen_call.messages) = "ok") =>
        LET ms == gen_call.messages
            i == FirstSystem(ms)
        IN  IF i = 0
            THEN gen_params.system = None /\ gen_params.messages = ms
            ELSE /\ gen_params.system = Some(ms[i].content)
                 /\ gen_params.messages = Without(ms, i)

\* C13: a call with an empty message list, or with a message of empty or
\* whitespace-only content or of a role outside system, user, assistant,
\* fails with a caller-misuse error, and no params reach messages.create.
C13_InvalidRequestRejected ==
    (gen_call.path # "none" /\ validate_messages(gen_call.messages) # "ok") =>
        /\ gen_result.status = "raised"
        /\ gen_result.error.kind = "ValueError"
        /\ ~gen_call.backend_called

(***************************************************************************)
(* CLAIMS about retries in a turn and about what is retryable (C14 - C16)  *)
(***************************************************************************)

\* The number of calls of ai_client.generate the last turn made.
GenerateCalls ==
    Cardinality({i \in 1 .. Len(turn.effects) : turn.effects[i] = "ai_client.generate"})

\* C14: in an onboarding or classification turn, a rate-limit failure of the
\* backend call is re-attempted: a turn whose backend call ended with
\* AIRateLimitError has called generate more than once.
C14_RateLimitRetriedInTurn ==
    (turn.op = "message" /\ turn.backend.kind = "AIRateLimitError") => GenerateCalls > 1

\* The connectivity and timeout failures of the backend call: those of the SDK
\* and the builtins.
ConnectivityFailures == ConnectionErrorClasses \cup {"ConnectionError", "TimeoutError"}

\* C15: with generate or generate_sync as the operation the retry policy
\* wraps, the error a failed call raises is one the policy retries when the
\* backend failure was a rate limit, a connectivity failure or a timeout, and
\* one it re-raises at once for every other failure.
C15_ConnectivityFailureRetryable ==
    (gen_call.path # "none" /\ ~gen_call.backend.ok) =>
        (IsRetryable(gen_result.error.kind)
            <=> gen_call.backend.exc.cls \in ConnectivityFailures \cup {"RateLimitError"})

\* C16: a caller-level timeout or cancellation that arrives during an attempt
\* (or during a delay) ends the invocation with that exception: the cancelled
\* call is the last call, no delay is taken after it, and the wrapper has
\* raised; it is never classified as retryable.
C16_CancellationNeverRetried ==
    /\ \A i \in 1 .. Len(calls) :
          (~calls[i].ok /\ calls[i].kind \in CancelKinds) =>
              /\ i = Len(calls)
              /\ Len(delays) = i - 1
              /\ rpc = "raised"
              /\ result = calls[i]
    /\ (~result.ok /\ result.kind \in CancelKinds) => rpc = "raised"
    /\ \A k \in CancelKinds : ~IsRetryable(k)

\* C16 witness: the second attempt of an async invocation, made after a
\* retryable failure and its delay, was cancelled in flight.
C16_Witness ==
    /\ variant = "async"
    /\ rpc = "raised"
    /\ Len(calls) = 2
    /\ calls[1].kind = "AIRateLimitError"
    /\ calls[2].kind = "CancelledError"
    /\ Len(delays) = 1
    /\ max_retries >= 2

(***************************************************************************)
(* CLAIM about the delays (C17)                                            *)
(***************************************************************************)

\* d_i of the claim, for the 0-indexed attempt i, in seconds.
NominalDelay(i) ==
    IF base_delay * 2^i <= max_delay THEN base_delay * 2^i ELSE max_delay

\* C17: the delay taken after the failure of attempt i (0-indexed; it is
\* delays[i + 1], in units of 1 / DelayUnit seconds) is exactly
\* d_i = min(base_delay * 2^i, max_delay) without jitter and lies in
\* [d_i, 1.1 * d_i] with jitter; without jitter the delays never decrease and
\* never exceed max_delay.
C17_DelayFormula ==
    rpc # "idle" =>
        \A i \in 0 .. Len(delays) - 1 :
            LET taken == delays[i + 1]
                d == NominalDelay(i) * DelayUnit
            IN  IF jitter
                THEN d <= taken /\ 10 * taken <= 11 * d
                ELSE /\ taken = d
                     /\ taken <= max_delay * DelayUnit
                     /\ i > 0 => delays[i] <= taken

\* C17 witness: without jitter, base_delay 2 and max_delay 5 gave the delays
\* 2, 4 and the capped 5.
C17_Witness ==
    /\ ~jitter
    /\ base_delay = 2
    /\ max_delay = 5
    /\ delays = <<2 * DelayUnit, 4 * DelayUnit, 5 * DelayUnit>>

\* With jitter, a delay above its nominal value has been taken.
C17_JitterAdds ==
    /\ jitter
    /\ Len(delays) >= 1
    /\ delays[1] > NominalDelay(0) * DelayUnit

(***************************************************************************)
(* CLAIM about a failed classification (C18)                               *)
(***************************************************************************)

\* The step is a text-message turn of a completed user in which the backend
\* call failed and no repository or Telegram call did.
FailedClassificationTurn ==
    /\ turn'.op = "message"
    /\ turn'.status_read = "completed"
    /\ turn'.backend \in BackendFailures
    /\ turn'.f = 0

\* C18: when the backend call fails, with whatever error kind, during
\* classification, no pondering is stored and nothing is raised; the handler
\* sends a reply and stores the user's message and that reply.
C18_FailedClassificationStillReplies ==
    [][FailedClassificationTurn =>
           /\ db'.pondering = db.pondering
           /\ ~Performed("pondering.create")
           /\ ~turn'.raised
           /\ turn'.reply # None
           /\ \E t \in UserTexts :
                  db'.message = db.message
                                    \o <<Msg("user", t), Msg("assistant", turn'.reply[1])>>]_vars

\* C18 witness: a classification turn failed on a rate limit and was answered
\* with "Got it.".
C18_Witness ==
    /\ turn.op = "message"
    /\ turn.status_read = "completed"
    /\ turn.backend = Raised("AIRateLimitError")
    /\ turn.f = 0
    /\ turn.reply = Some(GOT_IT_REPLY)
    /\ db.pondering = <<>>
    /\ db.message[Len(db.message)] = Msg("assistant", GOT_IT_REPLY)

(***************************************************************************)
(* C19: concurrent create_provider() calls on one factory                  *)
(***************************************************************************)

\* The threads whose last create_provider() call has returned an instance.
Callers == {t \in Threads : fac_threads[t].outcome = "returned"}

\* C19: under every interleaving of concurrent create_provider() calls without
\* overrides for the same kind, every caller receives the same instance, the
\* one the cache holds for that kind once the calls are over.
C19_ConcurrentCallersShareInstance ==
    /\ \A t, u \in Callers : fac_threads[t].returned = fac_threads[u].returned
    /\ (Callers = Threads /\ \A t \in Threads : fac_threads[t].pc = "done")
          => \A t \in Threads :
                fac_threads[t].returned = provider_cache[factory_config.default_provider]

\* What the code does keep: a call that returns hands out a constructed
\* instance, and a cached kind holds exactly one constructed instance.
C19_ReturnsConstructedInstance ==
    /\ \A t \in Callers : fac_threads[t].returned \in 1 .. Len(instances)
    /\ \A k \in ProviderTypes : provider_cache[k] \in 0 .. Len(instances)

(***************************************************************************)
(* C20: create_provider with overrides                                     *)
(***************************************************************************)

\* The last call was create_provider(kind, **overrides) with overrides, on a
\* factory whose configuration resolves for the kind and has a usable key.
CalledWithOverrides ==
    /\ fac_call.op = "create_provider"
    /\ DOMAIN fac_call.override_config # {}
    /\ factory_config.providers[KindOf(fac_call)] # <<>>
    /\ \/ factory_config.providers[KindOf(fac_call)][1].api_key # ""
       \/ env_api_key # ""

\* The options of the adapter: the merge of the configuration's options with
\* the overrides, the override winning on every key they share.
MergedAsStated(adapter, extra_config, override_config) ==
    /\ \A k \in DOMAIN override_config : /\ k \in DOMAIN adapter.config
                                         /\ adapter.config[k] = override_config[k]
    /\ \A k \in DOMAIN extra_config \ DOMAIN override_config :
          /\ k \in DOMAIN adapter.config
          /\ adapter.config[k] = extra_config[k]
    /\ "default_model" \in DOMAIN override_config
          => adapter.default_model = override_config["default_model"]

\* C20: create_provider(kind, overrides) with overrides succeeds and returns a
\* newly built adapter whose options are the configuration's options merged with
\* the overrides, the overrides winning; an override of the default model gives
\* an adapter with that default model.
C20_OverridesMergedIntoFreshAdapter ==
    CalledWithOverrides =>
        /\ fac_call.outcome = "returned"
        /\ fac_call.instance = Len(instances)
        /\ MergedAsStated(instances[fac_call.instance],
                          factory_config.providers[KindOf(fac_call)][1].extra_config,
                          fac_call.override_config)

\* What the code does: the merge as stated for the overrides that name neither
\* constructor keyword, and a TypeError for those that name one.
C20_MergedUnlessKeywordOverridden ==
    CalledWithOverrides =>
        IF {"api_key", "default_model"} \cap DOMAIN fac_call.override_config = {}
        THEN /\ fac_call.outcome = "returned"
             /\ fac_call.instance = Len(instances)
             /\ MergedAsStated(instances[fac_call.instance],
                               factory_config.providers[KindOf(fac_call)][1].extra_config,
                               fac_call.override_config)
        ELSE fac_call.outcome = "raised" /\ fac_call.error = "TypeError"

(***************************************************************************)
(* C21: clear_cache                                                        *)
(***************************************************************************)

\* C21: clear_cache() leaves the cache without any instance and leaves the
\* instances built so far as they are; the create_provider() without overrides
\* that follows it, when it returns, builds a new instance, none of those built
\* before, caches it, and leaves the earlier instances as they are.
C21_ClearCacheThenFresh ==
    [][ /\ fac_call'.op = "clear_cache" =>
              /\ CachedInstances(provider_cache') = {}
              /\ instances' = instances
        /\ (/\ fac_call.op = "clear_cache"
            /\ CreatedProvider(fac_call')
            /\ DOMAIN fac_call'.override_config = {}
            /\ fac_call'.outcome = "returned")
              => /\ fac_call'.instance \notin 1 .. Len(instances)
                 /\ fac_call'.instance = Len(instances')
                 /\ provider_cache'[KindOf(fac_call')] = fac_call'.instance
                 /\ SubSeq(instances', 1, Len(instances)) = instances
      ]_vars

\* C21 witness: two instances were built without overrides (both carry the
\* configuration's own timeout, which every override replaces), so the first
\* was cached and a clear_cache() came before the second, which is now the one
\* cached and returned.
C21_Witness ==
    /\ factory_config = ExplicitConfig(TRUE)
    /\ Len(instances) = 2
    /\ instances[1] = instances[2]
    /\ instances[1].config["timeout"] = "10"
    /\ provider_cache["anthropic"] = 2
    /\ CreatedProvider(fac_call)
    /\ DOMAIN fac_call.override_config = {}
    /\ fac_call.instance = 2

(***************************************************************************)
(* C22: a missing credential                                               *)
(***************************************************************************)

\* Neither the configuration of the kind nor the environment holds a key.
NoCredential(kind) ==
    /\ env_api_key = ""
    /\ \/ factory_config.providers[kind] = <<>>
       \/ factory_config.providers[kind][1].api_key = ""

\* C22: a missing credential fails at construction: the constructor given no
\* key, with no key in the environment, raises; create_provider for a kind
\* without a credential raises (ValueError, unless the call itself is malformed
\* by an override that names a constructor keyword), so that no adapter is ever
\* built or cached for it; hence every adapter that exists, and can be called,
\* holds a key.
C22_MissingCredentialFailsAtConstruction ==
    /\ \A extra \in OverrideDicts, m \in {"claude-3-5-sonnet-20241022"} :
          ~AnthropicProvider_new("", m, extra, "").ok
    /\ \A i \in 1 .. Len(instances) : instances[i].api_key # ""
    /\ \A kind \in ProviderTypes :
          NoCredential(kind) =>
             /\ instances = <<>>
             /\ provider_cache[kind] = 0
             /\ (CreatedProvider(fac_call) /\ KindOf(fac_call) = kind) =>
                   /\ fac_call.outcome = "raised"
                   /\ \/ fac_call.error = "ValueError"
                      \/ {"api_key", "default_model"}
                            \cap DOMAIN fac_call.override_config # {}

\* C22 witness: the configuration names the kind without a key, the environment
\* has none, and a create_provider() call raised ValueError from the constructor.
C22_Witness ==
    /\ factory_config = ExplicitConfig(FALSE)
    /\ env_api_key = ""
    /\ fac_call.op = "create_provider"
    /\ DOMAIN fac_call.override_config = {}
    /\ fac_call.outcome = "raised"
    /\ fac_call.error = "ValueError"
    /\ instances = <<>>

(***************************************************************************)
(* C23: the convenience path and the environment                           *)
(***************************************************************************)

\* What the last convenience call returned or raised.
QuickResult ==
    IF fac_call.outcome = "returned"
    THEN [ok |-> TRUE, instance |-> instances[fac_call.instance]]
    ELSE [ok |-> FALSE, error |-> fac_call.error]

\* C23: a convenience call has the outcome that the same call has under any
\* other value of the credential environment variable.
C23_QuickIgnoresEnvironment ==
    fac_call.op \in {"create_quick", "create_ai_client"} =>
        \A e \in {"", "sk-env"} :
            create_quick_outcome(fac_call.provider_type, fac_call.override_config, e)
               = QuickResult

\* What the code keeps: the outcome is independent of the environment when the
\* options carry an api_key or the provider name is unknown.
C23_QuickWithKeyIgnoresEnvironment ==
    (/\ fac_call.op \in {"create_quick", "create_ai_client"}
     /\ \/ "api_key" \in DOMAIN fac_call.override_config
        \/ LowerName(fac_call.provider_type) \notin ProviderTypes) =>
        \A e \in {"", "sk-env"} :
            create_quick_outcome(fac_call.provider_type, fac_call.override_config, e)
               = QuickResult

(***************************************************************************)
(* C24, C25: the parsers on missing and malformed structure                *)
(***************************************************************************)

\* The inner text of the boolean tag of a document, trimmed, inside its
\* enclosing wrapper; None when the tag or the wrapper is absent.
CompleteText(text) ==
    LET status == extract_tag(text, "onboarding_status") IN
    IF status = None THEN None ELSE extract_tag(status[1], "complete")

IsValidText(text) ==
    LET classification == extract_tag(text, "classification") IN
    IF classification = None THEN None ELSE extract_tag(classification[1], "is_valid")

OnboardingResultFields ==
    {"response_text", "is_complete", "daily_intentions", "values", "goals"}
PonderingResultFields == {"is_valid", "category", "cleaned_content", "interpretation"}

\* C24: for every text the parsers return a result, and in it every scalar
\* field whose tag is absent has its default: false for is_complete and
\* is_valid, "invalid" for the category, no text for cleaned_content and
\* interpretation, and the empty reply for an empty text.
C24_ParsersDegradeToDefaults ==
    /\ parsed.kind = "onboarding" =>
          /\ DOMAIN parsed.r = OnboardingResultFields
          /\ CompleteText(parser_input) = None => parsed.r.is_complete = "False"
          /\ parser_input = <<>> => parsed.r.response_text = <<>>
    /\ parsed.kind = "pondering" =>
          /\ DOMAIN parsed.r = PonderingResultFields
          /\ IsValidText(parser_input) = None => parsed.r.is_valid = "False"
          /\ extract_tag(parser_input, "classification") = None =>
                parsed.r.category = <<"invalid">>
          /\ extract_tag(parser_input, "cleaned") = None =>
                parsed.r.cleaned_content \in {None, Some(<<>>)}
          /\ extract_tag(parser_input, "interpretation") = None =>
                parsed.r.interpretation \in {None, Some(<<>>)}

\* What the code keeps: the parsers return a result for every text, and an
\* absent boolean field is left at a value that is not true (None).
C24_ParsersReturnFalsyDefaults ==
    /\ parsed.kind = "onboarding" =>
          /\ DOMAIN parsed.r = OnboardingResultFields
          /\ CompleteText(parser_input) = None => parsed.r.is_complete = "None"
          /\ parser_input = <<>> => parsed.r.response_text = <<>>
    /\ parsed.kind = "pondering" =>
          /\ DOMAIN parsed.r = PonderingResultFields
          /\ IsValidText(parser_input) = None => parsed.r.is_valid = "None"
          /\ extract_tag(parser_input, "classification") = None =>
                parsed.r.category = <<"invalid">>
          /\ extract_tag(parser_input, "cleaned") = None =>
                parsed.r.cleaned_content = None
          /\ extract_tag(parser_input, "interpretation") = None =>
                parsed.r.interpretation = None

\* The value the boolean field of a tag text is stated to have.
StatedBool(o) == IF o # None /\ Lower(o[1]) = <<"true">> THEN "True" ELSE "False"

\* C25: is_complete and is_valid are the boolean true when the trimmed text of
\* their tag is "true" in any case, and the boolean false in every other
\* case: another text, an empty tag, no tag, no enclosing wrapper.
C25_BooleanFieldIsTrueOrFalse ==
    /\ parsed.kind = "onboarding" =>
          parsed.r.is_complete = StatedBool(CompleteText(parser_input))
    /\ parsed.kind = "pondering" =>
          parsed.r.is_valid = StatedBool(IsValidText(parser_input))

\* What the code keeps: the field is the boolean true exactly when the text is
\* "true" in any case, and the boolean false for any other text that is not
\* empty; for an empty or absent tag it is the empty string or None.
C25_BooleanFieldAsCoded ==
    LET coded(o) == IF o = None THEN "None"
                    ELSE IF o[1] = <<>> THEN "EmptyStr"
                    ELSE StatedBool(o)
    IN  /\ parsed.kind = "onboarding" =>
              parsed.r.is_complete = coded(CompleteText(parser_input))
        /\ parsed.kind = "pondering" =>
              parsed.r.is_valid = coded(IsValidText(parser_input))

(***************************************************************************)
(* C26: extract_list                                                       *)
(***************************************************************************)

\* C26: extract_list returns the items that lie inside the parent tag, in
\* document order and trimmed, none of the items before or after the parent
\* tag, and the empty list when the parent tag is absent.
C26_ListItemsWithinParent ==
    parsed.kind = "list" =>
        /\ \A p \in ListDocParams :
              parser_input = ListDoc(p) =>
                  parsed.r = IF p.parent THEN p.inside ELSE <<>>
        /\ extract_tag(parser_input, "daily_intentions") = None => parsed.r = <<>>
        /\ \A i \in 1 .. Len(parsed.r) : Strip(parsed.r[i]) = parsed.r[i]

\* C26 witness: a document with an item before the list, two padded items in
\* it and one after it has been handed to extract_list, which returned the two.
C26_Witness ==
    /\ parsed.kind = "list"
    /\ parser_input = ListDoc([before |-> <<<<"stray">>>>,
                               inside |-> <<<<"run">>, <<"read", " ", "more">>>>,
                               after |-> <<<<"late">>>>, parent |-> TRUE])
    /\ parsed.r = <<<<"run">>, <<"read", " ", "more">>>>

(***************************************************************************)
(* C27: the reply text of an onboarding turn                               *)
(***************************************************************************)

\* The trimmed inner text of the first <response>...</response> pair of a
\* text, None when the text has no such pair.
FirstResponsePair(text) ==
    LET m == FirstMatch(text, "response", 1) IN
    IF m = <<>> THEN None ELSE Some(Strip(SubSeq(text, m[1] + 1, m[2] - 1)))

\* C27: the reply text is the trimmed inner text of the first response pair
\* whenever the text has one, and the entire text only when it has none.
C27_ReplyIsFirstResponsePair ==
    parsed.kind = "onboarding" =>
        IF FirstResponsePair(parser_input) # None
        THEN parsed.r.response_text = FirstResponsePair(parser_input)[1]
        ELSE parsed.r.response_text \in {parser_input, Strip(parser_input)}

\* What the code keeps: the inner text when the pair is there and its inner
\* text is not blank; the entire text, trimmed, when there is no pair and also
\* when the pair is empty or blank.
C27_ReplyAsCoded ==
    parsed.kind = "onboarding" =>
        IF TruthyStr(FirstResponsePair(parser_input))
        THEN parsed.r.response_text = FirstResponsePair(parser_input)[1]
        ELSE parsed.r.response_text = Strip(parser_input)

(***************************************************************************)
(* C28: rendering fields and parsing the document                          *)
(***************************************************************************)

\* The Python bool of the model
PyBool(b) == IF b THEN "True" ELSE "False"

C28_WitnessClassification ==
    /\ parsed.kind = "pondering"
    /\ parser_input =
          RenderClassification([is_valid |-> TRUE, category |-> <<"thought">>,
                                cleaned_content |-> None,
                                interpretation |-> Some(<<"rest", " ", "more">>)], "True")
    /\ parsed.r.cleaned_content = None

(***************************************************************************)
(* C29: the is_ready field                                                 *)
(***************************************************************************)

\* "<response>Hello</response><onboarding_status><complete>false</complete>
\*  <ready>false</ready></onboarding_status>"
ScenarioText == Tagged("response", <<"Hello">>) \o StatusSection("false", "false")

\* The inner text of <ready> inside the status wrapper, None when absent.
ReadyText(text) ==
    LET status == extract_tag(text, "onboarding_status") IN
    IF status = None THEN None ELSE extract_tag(status[1], "ready")

\* C29: the onboarding result has a field is_ready, true exactly when the
\* trimmed text of <ready> is "true" in any case; for the scenario text the
\* result is reply_text "Hello", is_complete false, is_ready false.
C29_ResultHasIsReady ==
    parsed.kind = "onboarding" =>
        /\ "is_ready" \in DOMAIN parsed.r
        /\ parsed.r.is_ready = StatedBool(ReadyText(parser_input))
        /\ parser_input = ScenarioText =>
              /\ parsed.r.response_text = <<"Hello">>
              /\ parsed.r.is_complete = "False"
              /\ parsed.r.is_ready = "False"

\* What the code keeps of the scenario: the reply text and is_complete.
C29_ScenarioWithoutIsReady ==
    (parsed.kind = "onboarding" /\ parser_input = ScenarioText) =>
        /\ parsed.r.response_text = <<"Hello">>
        /\ parsed.r.is_complete = "False"
        /\ "is_ready" \notin DOMAIN parsed.r

(***************************************************************************)
(* C30: an onboarding turn that is not complete                            *)
(***************************************************************************)

\* The step is an onboarding turn whose backend text parsed to a result with
\* is_complete not true.
IncompleteOnboardingTurn ==
    /\ turn'.op = "message"
    /\ turn'.backend.ok
    /\ turn'.is_complete \in {"False", "None", "EmptyStr"}

\* C30: an onboarding turn whose parsed output has is_complete false leaves
\* the user's onboarding status and the stored profile as they were, whatever
\* the <ready> tag of the backend text says.
C30_IncompleteTurnChangesNoState ==
    [][IncompleteOnboardingTurn =>
           /\ db'.user = db.user
           /\ db'.user_profile = db.user_profile
           /\ ~Performed("user_profile.upsert")
           /\ ~Performed("user.update_onboarding_status")]_vars

\* C30 witness: a started user's turn on a backend text with
\* <complete>false</complete> and <ready>true</ready> has been handled to its
\* end; the user is still started and has no profile.
C30_Witness ==
    /\ turn.op = "message"
    /\ turn.backend = Returned(Tagged("response", <<"Hello">>)
                                   \o StatusSection("false", "true"))
    /\ turn.is_complete = "False"
    /\ turn.f = 0
    /\ turn.reply = Some(<<"Hello">>)
    /\ db.user = "started"
    /\ db.user_profile = None

(***************************************************************************)
(* C31: the usage counters of a response                                   *)
(***************************************************************************)

\* C31: in every response the adapter returns, on either path, total_tokens is
\* prompt_tokens + completion_tokens, the two counters are those the backend
\* reports (zero for one it omits), all three are zero when the backend
\* response has no usage, and a total reported by the backend is not used.
C31_TotalIsSumOfCounters ==
    gen_result.status = "returned" =>
        LET usage == gen_result.response.usage
            reported == gen_call.backend.resp.usage
        IN  /\ usage.total_tokens = usage.prompt_tokens + usage.completion_tokens
            /\ reported = <<>> =>
                  /\ usage.prompt_tokens = 0
                  /\ usage.completion_tokens = 0
                  /\ usage.total_tokens = 0
            /\ reported # <<>> =>
                  /\ usage.prompt_tokens = Getattr(reported[1], "input_tokens", 0)
                  /\ usage.completion_tokens = Getattr(reported[1], "output_tokens", 0)

\* C31 witness: the backend reported 3 and 5 tokens and a total of 99, and the
\* response returned says 8.
C31_Witness ==
    /\ gen_result.status = "returned"
    /\ gen_call.backend.resp.usage # <<>>
    /\ Getattr(gen_call.backend.resp.usage[1], "total_tokens", 0) = 99
    /\ gen_result.response.usage.total_tokens = 8

(***************************************************************************)
(* C32: the retry policy keeps no state between invocations                *)
(***************************************************************************)

\* C32: whatever the other invocations of the decorated function have done or
\* are doing, an invocation counts its attempts from 0 (the call in flight is
\* the one numbered by the calls it has made itself), the delay of its sleep is
\* the one of its own attempt, it never makes more than max_retries + 1 calls,
\* and when it ends on a retryable error it has made all of them.
C32_InvocationsShareNoState ==
    \A c \in Callers2 :
        LET x == invs.run[c]
            d == invs.deco
        IN  /\ x.pc = "calling" => x.attempt = x.ncalls
            /\ x.pc = "sleeping" =>
                  /\ x.attempt = x.ncalls - 1
                  /\ x.delay \in
                        {JitteredDelay(BackoffDelay(d.base_delay, x.ncalls - 1,
                                                    d.max_delay), d.jitter, u) :
                            u \in JitterDraws(d.jitter)}
            /\ x.ncalls <= d.max_retries + 1
            /\ (x.pc = "raised" /\ IsRetryable(x.raised))
                  => x.ncalls = d.max_retries + 1
            /\ x.pc \in {"returned", "raised"} => x.ncalls >= 1

\* C32 witness: the first caller has used up its attempts on retryable errors
\* in one invocation and is in its second one, again at attempt 0, while the
\* second caller's invocation is asleep after its second failure.
C32_Witness ==
    /\ invs.deco.max_retries = 2
    /\ invs.run[1].runs = 2
    /\ invs.run[1].pc = "calling"
    /\ invs.run[1].attempt = 0
    /\ invs.run[2].pc = "sleeping"
    /\ invs.run[2].attempt = 1
    /\ invs.run[2].ncalls = 2

(***************************************************************************)
(* C33: the messages of the onboarding prompt                              *)
(***************************************************************************)

\* The rows of the conversation when the backend is called in the step: the
\* rows before the turn and the user's message the turn stored.
RowsAtCall == SubSeq(db'.message, 1, Len(db.message) + 1)

\* The step is an onboarding turn that called the backend.
OnboardingBackendCall ==
    /\ turn'.op = "message"
    /\ turn'.status_read = "started"
    /\ turn'.sent # <<>>

\* C33: in an onboarding turn the messages sent to the backend are the system
\* prompt followed by the most recent stored turns, at most HISTORY_LIMIT, in
\* chronological order, the last one being the user's message just received.
C33_PromptIsMostRecentTurns ==
    [][OnboardingBackendCall =>
          /\ turn'.sent = format_messages(
                 MostRecent(RowsAtCall, HISTORY_LIMIT))
          /\ turn'.sent[Len(turn'.sent)] = RowsAtCall[Len(RowsAtCall)]
          /\ turn'.sent[Len(turn'.sent)].role = "user"]_vars

\* What the code sends: the system prompt followed by the first HISTORY_LIMIT
\* rows of the conversation in chronological order, which are all its rows,
\* ending with the message just received, while the conversation has no more
\* than HISTORY_LIMIT rows.
C33_PromptIsOldestTurns ==
    [][OnboardingBackendCall =>
          /\ turn'.sent = format_messages(
                 get_conversation_messages(RowsAtCall, HISTORY_LIMIT))
          /\ Len(RowsAtCall) <= HISTORY_LIMIT =>
                turn'.sent[Len(turn'.sent)] = RowsAtCall[Len(RowsAtCall)]]_vars

\* A turn of a conversation that had HISTORY_LIMIT rows or more: the prompt
\* ends with a stored row, not with the message just received.
C33_LongConversationTurn ==
    /\ turn.op = "message"
    /\ Len(turn.sent) = HISTORY_LIMIT + 1
    /\ turn.sent[Len(turn.sent)].content = <<"stored", "20">>
    /\ Len(db.message) > HISTORY_LIMIT

(***************************************************************************)
(* C34: completed users have a profile                                     *)
(***************************************************************************)

\* C34: a user whose status is completed has a stored profile, and a handler
\* that set the status to completed had saved the profile just before; a
\* completing turn that failed between the two left the profile with status
\* started.
C34_CompletedHasProfile ==
    /\ db.user = "completed" => db.user_profile # None
    /\ turn.op \in {"message", "service"} =>
          \A i \in 1 .. Len(turn.effects) :
              turn.effects[i] = "user.update_onboarding_status" =>
                  /\ i > 1
                  /\ turn.effects[i - 1] = "user_profile.upsert"
    /\ (turn.op = "message" /\ turn.f = 8 /\ turn.raised
            /\ turn.effects[Len(turn.effects)] = "user_profile.upsert")
          => /\ db.user = "started"
             /\ db.user_profile # None

\* C34 witness: a completing turn whose status update failed after the profile
\* was saved.
C34_Witness ==
    /\ turn.op = "message"
    /\ turn.f = 8
    /\ turn.raised
    /\ Len(turn.effects) > 0
    /\ turn.effects[Len(turn.effects)] = "user_profile.upsert"
    /\ db.user = "started"
    /\ db.user_profile # None

(***************************************************************************)
(* C35, C36: the category of a pondering                                   *)
(***************************************************************************)

\* The inner text of <category> inside the classification, None when absent.
CategoryText(text) ==
    extract_tag(OrEmpty(extract_tag(text, "classification")), "category")

\* C35: the category PonderingResult.parse returns is one of thought,
\* observation, feeling and invalid, whatever the backend text, so
\* PonderingCategory(result.category) is a member and raises no ValueError.
C35_CategoryIsAMember ==
    parsed.kind = "pondering" =>
        /\ parsed.r.category \in
              {<<"thought">>, <<"observation">>, <<"feeling">>, <<"invalid">>}
        /\ PonderingCategory(parsed.r.category) = Some(parsed.r.category)

\* C35 witness: a text that says is_valid true with a category of no member.
C35_Witness ==
    /\ parsed.kind = "pondering"
    /\ IsValidText(parser_input) = Some(<<"true">>)
    /\ CategoryText(parser_input) = Some(<<"bogus">>)
    /\ parsed.r.category = <<"invalid">>

\* C35 witness: a category in another case is lowered to its member.
C35_WitnessCase ==
    /\ parsed.kind = "pondering"
    /\ CategoryText(parser_input) = Some(<<"Thought">>)
    /\ parsed.r.category = <<"thought">>

\* C36: every pondering stored with is_valid true has a category among
\* thought, observation and feeling, never "invalid".
C36_ValidHasRealCategory ==
    \A i \in 1 .. Len(db.pondering) :
        Truthy(db.pondering[i].is_valid) =>
            db.pondering[i].category \in
                {<<"thought">>, <<"observation">>, <<"feeling">>}

\* What the code keeps: a stored category is one of the four members, and a
\* pondering whose is_valid is not true has category "invalid" and neither
\* cleaned content nor interpretation.
C36_NotValidIsInvalid ==
    \A i \in 1 .. Len(db.pondering) :
        /\ db.pondering[i].category \in PonderingCategoryValues
        /\ ~Truthy(db.pondering[i].is_valid) =>
              /\ db.pondering[i].category = <<"invalid">>
              /\ db.pondering[i].cleaned_content = None
              /\ db.pondering[i].interpretation = None

\* A classification with is_valid true and an unknown category has been
\* stored as valid with category "invalid" and acknowledged as noted.
C36_ValidStoredAsInvalid ==
    /\ turn.op = "message"
    /\ turn.backend.ok
    /\ IsValidText(turn.backend.text) = Some(<<"true">>)
    /\ CategoryText(turn.backend.text) = Some(<<"bogus">>)
    /\ Len(db.pondering) > 0
    /\ db.pondering[Len(db.pondering)].is_valid = "True"
    /\ db.pondering[Len(db.pondering)].category = <<"invalid">>
    /\ turn.reply = Some(<<"sparkles-emoji Noted.">>)

(***************************************************************************)
(* C37: a backend failure in an onboarding turn                            *)
(***************************************************************************)

\* The step is an onboarding turn whose call of the backend failed.
FailedOnboardingTurn ==
    /\ turn'.op = "message"
    /\ turn'.status_read = "started"
    /\ turn'.backend \in BackendFailures

\* C37: when the backend call of an onboarding turn fails, the error leaves
\* the handler, no reply is sent, and the tables are those before the turn
\* (in the conversation the handler had fetched) with the user's message
\* appended: status, profile and ponderings unchanged, no assistant message.
C37_BackendFailureStoresOnlyUserMessage ==
    [][FailedOnboardingTurn =>
          /\ turn'.raised
          /\ turn'.reply = None
          /\ ~turn'.notified
          /\ db'.user = db.user
          /\ db'.user_profile = db.user_profile
          /\ db'.pondering = db.pondering
          /\ db'.conversation
          /\ Len(db'.message) = Len(db.message) + 1
          /\ SubSeq(db'.message, 1, Len(db.message)) = db.message
          /\ db'.message[Len(db'.message)].role = "user"
          /\ db'.message[Len(db'.message)].content \in UserTexts
          /\ turn'.effects[Len(turn'.effects)] = "ai_client.generate"]_vars

\* C37 witness: an onboarding turn whose backend call raised a rate-limit
\* error, in a conversation that already had the greeting.
C37_Witness ==
    /\ turn.op = "message"
    /\ turn.status_read = "started"
    /\ turn.backend = Raised("AIRateLimitError")
    /\ turn.raised
    /\ turn.reply = None
    /\ db.user = "started"
    /\ Len(db.message) = 2
    /\ db.message[2].role = "user"

(***************************************************************************)
(* C38: the completion notification                                        *)
(***************************************************************************)

\* C38: a reply carries the completion notification exactly when the turn
\* changed the user's status from started to completed, and the notification
\* is ONBOARDING_COMPLETE_MESSAGE at the end of the reply; once a user is
\* completed, handlers other than /northstar and /reset leave the status
\* completed and send no notification, so it is sent at most once.
C38_NotifiedExactlyOnCompletion ==
    [][/\ turn'.notified =>
             /\ turn'.reply # None
             /\ db.user = "started"
             /\ db'.user = "completed"
             /\ Len(turn'.reply[1]) >= 1
             /\ turn'.reply[1][Len(turn'.reply[1])] = ONBOARDING_COMPLETE_MESSAGE[1]
       /\ (turn'.op = "message" /\ turn'.reply # None) =>
             (turn'.notified <=> (db.user = "started" /\ db'.user = "completed"))
       /\ (db.user = "completed" /\ turn'.op \notin {"northstar", "reset"}) =>
             /\ db'.user = "completed"
             /\ ~turn'.notified]_vars

\* C38 witness: the completing turn has been answered with the notification.
C38_Witness ==
    /\ turn.op = "message"
    /\ turn.status_read = "started"
    /\ db.user = "completed"
    /\ turn.notified
    /\ turn.reply # None
    /\ turn.reply[1][Len(turn.reply[1])] = ONBOARDING_COMPLETE_MESSAGE[1]

\* C38 witness: a later message of the completed user, answered without it.
C38_WitnessLater ==
    /\ turn.op = "message"
    /\ turn.status_read = "completed"
    /\ turn.reply # None
    /\ ~turn.notified

(***************************************************************************)
(* C39: routing of a text message                                          *)
(***************************************************************************)

\* The step is a text message for which the backend was called.
MessageCalledBackend ==
    /\ turn'.op = "message"
    /\ turn'.backend # NoBackendCall

\* C39: the backend is called with the onboarding prompt only for a user whose
\* stored status at the start of the turn is started, and for classification
\* only for one whose status is completed; a text message of an unknown or a
\* pending user calls no backend, stores no message or pondering and changes
\* neither status nor profile.
C39_RoutingFollowsStatus ==
    [][/\ (MessageCalledBackend /\ turn'.sent # <<>>) =>
             /\ db.user = "started"
             /\ turn'.status_read = "started"
       /\ (MessageCalledBackend /\ turn'.sent = <<>>) =>
             /\ db.user = "completed"
             /\ turn'.status_read = "completed"
       /\ (turn'.op = "message" /\ db.user \in {"absent", "pending"}) =>
             /\ turn'.backend = NoBackendCall
             /\ \A i \in 1 .. Len(turn'.effects) :
                   turn'.effects[i] \notin {"ai_client.generate", "message.create",
                                            "pondering.create"}
             /\ db'.message = db.message
             /\ db'.pondering = db.pondering
             /\ db'.user = db.user
             /\ db'.user_profile = db.user_profile]_vars

\* C39 witness: a pending user's text message has been answered with the
\* prompt to use /start.
C39_Witness ==
    /\ turn.op = "message"
    /\ turn.status_read = "pending"
    /\ db.user = "pending"
    /\ turn.reply = Some(PENDING_REPLY)
    /\ turn.backend = NoBackendCall

\* C39 witness: a completed user's message has been classified.
C39_WitnessClassified ==
    /\ turn.op = "message"
    /\ turn.status_read = "completed"
    /\ turn.backend.ok
    /\ turn.sent = <<>>
    /\ Len(db.pondering) > 0

(***************************************************************************)
(* C40: /reset                                                             *)
(***************************************************************************)

\* The tables without any row of the user.
NothingStored ==
    [user |-> "absent", user_profile |-> None, conversation |-> FALSE,
     message |-> <<>>, pondering |-> <<>>]

\* C40: /reset of an existing user removes every row of the user or none, and
\* all of them when the handler completes; while there is no user row there
\* is no other row either, a text message is answered with the prompt to use
\* /start without a backend call or a write, and a /start that completes
\* creates the user and leaves it in status started without a profile.
C40_ResetLeavesNothing ==
    [][/\ (turn'.op = "reset" /\ db.user # "absent") =>
             /\ db' \in {db, NothingStored}
             /\ ~turn'.raised => db' = NothingStored
             /\ Performed("user.delete_all_data") <=> db' = NothingStored
       /\ db'.user = "absent" => db' = NothingStored
       /\ (turn'.op = "message" /\ db.user = "absent") =>
             /\ turn'.backend = NoBackendCall
             /\ turn'.effects = <<>>
             /\ db' = db
             /\ ~turn'.raised => turn'.reply = Some(USE_START_REPLY)
       /\ (turn'.op = "start" /\ db.user = "absent" /\ ~turn'.raised) =>
             /\ turn'.effects[1] = "user.create"
             /\ db'.user = "started"
             /\ db'.user_profile = None
             /\ db'.pondering = <<>>
             /\ db'.message = <<Msg("assistant", ONBOARDING_MESSAGE)>>]_vars

\* C40 witness: /reset of a completed user has run to its end and nothing is
\* stored.
C40_Witness ==
    /\ turn.op = "reset"
    /\ turn.status_read = "completed"
    /\ ~turn.raised
    /\ turn.reply = Some(RESET_REPLY)
    /\ db = NothingStored

====
